---- MODULE Spec2Model ----
(***************************************************************************)
(* Envelope email service: the durable send worker                         *)
(* (app/transport/worker.py), the outbound message table (app/messages.py) *)
(* with the send endpoint of app/main.py, and the SMTP connection pool     *)
(* (app/transport/pool.py).                                                *)
(*                                                                         *)
(* Spec      the message table, the send worker and POST /send             *)
(* SendSpec  the same with the draft send in place of the queued POST /send*)
(* PoolSpec  the SMTP connection pool                                      *)
(***************************************************************************)
EXTENDS Integers, Sequences, FiniteSets, Bags, TLC

VARIABLES
    \* ---- persistent store (app/db.py) ----
    msgs,            \* messages table: sequence of rows, the row id is the index
    accounts,        \* ids of the rows of the accounts table
    \* ---- wall clock (datetime.now) ----
    now,
    \* ---- SendWorker fields (worker.py:20-26) ----
    stopping,        \* self._stopping
    work_available,  \* self._work_available (asyncio.Event)
    in_flight,       \* self._in_flight
    semaphore,       \* free slots of self._semaphore
    \* ---- SendWorker coroutines ----
    wpc,             \* position of the _poll_loop task
    queued,          \* the local `queued` of _poll_loop: rows as read
    tasks,           \* the running _process_message coroutines, by row id
    waited,          \* time spent in wait_for(..., timeout=5.0), up to the timeout
    spc,             \* position of a running stop()
    drained,         \* time stop() has spent draining, up to the budget
    \* ---- request handlers that created a row: POST /send (main.py:147-206)
    \*      and the draft send (main.py:455-523) ----
    reqs,
    \* ---- drafts table ----
    drafts,
    \* ---- requests on one draft (main.py:406-562) ----
    dreqs,               \* the handler coroutines and their locals
    \* ---- inbox agent (agent/inbox_agent.py) and its mailbox ----
    inbox,               \* the IMAP folder: the messages by uid
    imap_up,             \* the IMAP server answers
    agent_actions,       \* the rows of the agent_actions table
    polls,               \* the coroutines running _do_poll and their locals
    \* ---- history: the rows the latest orphan recovery reset ----
    orphans,
    \* ---- SmtpConnectionPool (pool.py:33-38), for the one account ----
    conns,               \* every PooledConnection made so far, by identity
    lists,               \* the list objects that are or were self._idle[account_id]
    idle,                \* the list self._idle holds for the account, 0 if none
    credential_version,  \* self._credential_versions[account_id]
    sem,                 \* free slots of self._semaphores[account_id]
    closing,             \* connections invalidate_account has scheduled to close
    callers,             \* the coroutines inside `async with pool.acquire(account)`
    cleanup_task,        \* self._cleanup_task: "None", "running" or "done"
    closer,              \* the coroutine running close_all and its locals
    sweep,               \* the cleanup task: its position in _evict_stale, its locals
    \* ---- monotonic clock (time.monotonic) ----
    mono,
    \* ---- account discovery (discovery.py) ----
    disc                 \* the discovery under way: its locals and its output

wvars == <<stopping, work_available, in_flight, semaphore, wpc, queued, tasks,
           waited, spc, drained>>
avars == <<inbox, imap_up, agent_actions, polls>>
rest == <<dreqs, avars>>
dvars == <<disc>>
svars == <<msgs, accounts, now, wvars, reqs, drafts, orphans, rest, dvars>>
cvars == <<cleanup_task, closer, sweep>>
pvars == <<conns, lists, idle, credential_version, sem, closing, callers, mono,
           cvars, dvars>>
vars == <<svars, pvars>>

\* ---------------------------------------------------------------- bounds
MaxMsgs == 1
MaxTime == 360
TickStep == 120
NumCallers == 3
MaxConns == 2
MaxVersion == 1
MaxSweeps == 2
MaxBatch == 2
MaxK == 8
MaxDraftReqs == 3
MaxContent == 1
MaxInbound == 1
MaxPolls == 2
MaxDrafts == 2
MaxSends == 2

\* ------------------------------------------------------ program constants
MAX_RETRIES == 3
BASE_DELAY_SECONDS == 30
MAX_DELAY_SECONDS == 600
WORKER_CONCURRENCY == 5
QUEUE_LIMIT == 10
POLL_TIMEOUT == 5
DRAIN_BUDGET == 30
max_connections_per_account == 2
max_idle_seconds == 270
max_lifetime_seconds == 3600

NoTime == -1
None == "None"
Account == "acct-1"
\* the rate_limit_per_hour the account was created with (store.py:28, 66)
rate_limit_per_hour == 1

Min(a, b) == IF a <= b THEN a ELSE b

RECURSIVE Pow2(_)
Pow2(k) == IF k <= 0 THEN 1 ELSE 2 * Pow2(k - 1)

\* ------------------------------------------------------------ SMTP layer
\* What aiosmtplib can answer to one submission: success, or one of the
\* exceptions send_message classifies, or one it lets through.
SmtpExceptions == {"SMTPAuthenticationError", "SMTPRecipientsRefused",
                   "SMTPConnectError", "SMTPDataError"}
SmtpReplies == {"OK"} \cup SmtpExceptions

\* str(e) of each exception
ErrText(exc) ==
    CASE exc = "SMTPAuthenticationError" -> "535 bad credentials"
      [] exc = "SMTPRecipientsRefused"   -> "550 no such user"
      [] exc = "SMTPConnectError"        -> "connect failed"
      [] OTHER                           -> "554 rejected"

\* smtp.py:50-80. The result of send_message for one reply of the server:
\* the message id, an SmtpSendError, or the exception passed through.
send_message(header_id, reply) ==
    CASE reply = "OK" ->
           [kind |-> "ok",
            message_id |-> IF header_id # None /\ header_id # "" THEN header_id
                           ELSE "2.0.0 Ok: queued",
            error_type |-> None, message |-> None]
      [] reply = "SMTPAuthenticationError" ->
           [kind |-> "SmtpSendError", message_id |-> None,
            error_type |-> "auth_error", message |-> ErrText(reply)]
      [] reply = "SMTPRecipientsRefused" ->
           [kind |-> "SmtpSendError", message_id |-> None,
            error_type |-> "recipient_rejected", message |-> ErrText(reply)]
      [] reply \in {"SMTPConnectError", "TimeoutError", "OSError"} ->
           [kind |-> "SmtpSendError", message_id |-> None,
            error_type |-> "connection_error", message |-> ErrText(reply)]
      [] OTHER ->
           [kind |-> "exception", message_id |-> None,
            error_type |-> None, message |-> ErrText(reply)]

\* smtp.py:20-47: build_mime_message sets From, To and Subject only, so the
\* Message-ID header of the built message is absent.
build_mime_message_id == None

\* --------------------------------------------------------- messages table
Row(account_id) ==
    [account_id |-> account_id, status |-> "queued", message_id |-> None,
     sent_at |-> NoTime, error |-> None, retry_count |-> 0,
     next_retry_at |-> NoTime]

Ids == DOMAIN msgs

create_message(ms, account_id) == Append(ms, Row(account_id))

\* mark_sent that forgets the timestamp
mark_sent_without_time(ms, id, message_id, t) ==
    [ms EXCEPT ![id].status = "sent", ![id].message_id = message_id]

mark_sent(ms, id, message_id, t) ==
    [ms EXCEPT ![id].status = "sent", ![id].message_id = message_id,
               ![id].sent_at = t]

mark_failed(ms, id, error) ==
    [ms EXCEPT ![id].status = "failed", ![id].error = error]

\* UPDATE ... SET status = 'sending' WHERE id = ? AND status = 'queued'
claimable(ms, id) == ms[id].status = "queued"

claim_message(ms, id) ==
    IF claimable(ms, id) THEN [ms EXCEPT ![id].status = "sending"] ELSE ms

mark_retry(ms, id, error, next_retry) ==
    [ms EXCEPT ![id].status = "queued",
               ![id].retry_count = @ + 1,
               ![id].error = error,
               ![id].next_retry_at = next_retry]

recover_orphans(ms) ==
    [i \in DOMAIN ms |->
        IF ms[i].status = "sending" THEN [ms[i] EXCEPT !.status = "queued"]
        ELSE ms[i]]

\* rows a poll may read: queued and due
eligible(ms, t) ==
    {i \in DOMAIN ms : /\ ms[i].status = "queued"
                       /\ (ms[i].next_retry_at = NoTime \/ ms[i].next_retry_at <= t)}

\* ORDER BY next_retry_at, created_at: NULL sorts first, ids follow creation
before(ms, i, j) ==
    \/ ms[i].next_retry_at < ms[j].next_retry_at
    \/ ms[i].next_retry_at = ms[j].next_retry_at /\ i < j

RECURSIVE ordered(_, _)
ordered(ms, S) ==
    IF S = {} THEN <<>>
    ELSE LET first == CHOOSE i \in S : \A j \in S \ {i} : before(ms, i, j)
         IN <<first>> \o ordered(ms, S \ {first})

\* the row dict the worker receives
RowDict(ms, i) == [id |-> i, account_id |-> ms[i].account_id,
                   retry_count |-> ms[i].retry_count]

get_queued_messages(ms, t, limit) ==
    LET ord == ordered(ms, eligible(ms, t))
        n == Min(Len(ord), limit)
    IN [k \in 1..n |-> RowDict(ms, ord[k])]

\* ------------------------------------------------------------ send worker
\* a delay that grows by the base each time instead of doubling
delay_linear(retry_count) ==
    Min(BASE_DELAY_SECONDS * (retry_count + 1), MAX_DELAY_SECONDS)

\* worker.py:140
delay(retry_count) ==
    Min(BASE_DELAY_SECONDS * Pow2(retry_count), MAX_DELAY_SECONDS)

\* _handle_send_error with the limit tested by > instead of >=
handle_send_error_off_by_one(ms, id, row, error, t) ==
    IF error.error_type = "auth_error"
    THEN mark_failed(ms, id, error.message)
    ELSE IF row.retry_count > MAX_RETRIES
    THEN mark_failed(ms, id, "Max retries exceeded: " \o error.message)
    ELSE mark_retry(ms, id, error.message, t + delay(row.retry_count))

\* _handle_send_error without the auth_error branch
handle_send_error_auth_retried(ms, id, row, error, t) ==
    IF row.retry_count >= MAX_RETRIES
    THEN mark_failed(ms, id, "Max retries exceeded: " \o error.message)
    ELSE mark_retry(ms, id, error.message, t + delay(row.retry_count))

\* _handle_send_error that gives up at the first failure
\* a handler that schedules the retry without counting it
handle_send_error_uncounted(ms, id, row, error, t) ==
    IF error.error_type = "auth_error"
    THEN mark_failed(ms, id, error.message)
    ELSE [ms EXCEPT ![id].status = "queued",
                    ![id].error = error.message,
                    ![id].next_retry_at = t + delay(row.retry_count)]

handle_send_error_no_retry(ms, id, row, error, t) ==
    IF error.error_type = "auth_error"
    THEN mark_failed(ms, id, error.message)
    ELSE mark_failed(ms, id, "Max retries exceeded: " \o error.message)

\* _handle_send_error that records the bare error text at the limit
handle_send_error_bare_text(ms, id, row, error, t) ==
    IF error.error_type = "auth_error"
    THEN mark_failed(ms, id, error.message)
    ELSE IF row.retry_count >= MAX_RETRIES
    THEN mark_failed(ms, id, error.message)
    ELSE mark_retry(ms, id, error.message, t + delay(row.retry_count))

\* worker.py:127-146: the store after _handle_send_error(msg_id, row, error)
\* run at time t
handle_send_error(ms, id, row, error, t) ==
    IF error.error_type = "auth_error"
    THEN mark_failed(ms, id, error.message)
    ELSE IF row.retry_count >= MAX_RETRIES
    THEN mark_failed(ms, id, "Max retries exceeded: " \o error.message)
    ELSE mark_retry(ms, id, error.message, t + delay(row.retry_count))

NoResult == [kind |-> None, message_id |-> None, error_type |-> None,
             message |-> None]
NoTasks == [i \in {} |-> NoResult]

\* the finally clause of _process_message and the exit of `async with`
Finish(id) ==
    /\ tasks' = [i \in (DOMAIN tasks) \ {id} |-> tasks[i]]
    /\ in_flight' = in_flight \ {id}
    /\ semaphore' = semaphore + 1

Goto(id, pc) ==
    /\ tasks' = [tasks EXCEPT ![id].pc = pc]
    /\ UNCHANGED <<in_flight, semaphore>>

loopvars == <<stopping, work_available, wpc, queued, waited, spc, drained>>

\* start() that skips the orphan recovery
StartWithoutRecovery ==
    /\ wpc = "init"
    /\ orphans' = {i \in DOMAIN msgs : msgs[i].status = "sending"}
    /\ wpc' = "recovered"
    /\ UNCHANGED <<msgs, accounts, now, stopping, work_available, in_flight,
                   semaphore, queued, tasks, waited, spc, drained, reqs, drafts>>
    /\ UNCHANGED <<pvars, rest>>

\* worker.py:28-29: start() awaits the orphan recovery
StartRecover ==
    /\ wpc = "init"
    /\ msgs' = recover_orphans(msgs)
    /\ orphans' = {i \in DOMAIN msgs : msgs[i].status = "sending"}
    /\ wpc' = "recovered"
    /\ UNCHANGED <<accounts, now, stopping, work_available, in_flight, semaphore,
                   queued, tasks, waited, spc, drained, reqs, drafts>>
    /\ UNCHANGED <<pvars, rest>>

\* worker.py:30-32: start() clears the flag and schedules the poll loop
StartLoop ==
    /\ wpc = "recovered"
    /\ stopping' = FALSE
    /\ wpc' = "top"
    /\ orphans' = {}
    /\ UNCHANGED <<msgs, accounts, now, work_available, in_flight, semaphore,
                   queued, tasks, waited, spc, drained, reqs, drafts>>
    /\ UNCHANGED <<pvars, rest>>

\* a poll that reads every queued row, due or not
PollQueryNotDue ==
    /\ wpc = "top" /\ ~stopping
    /\ LET all == {i \in DOMAIN msgs : msgs[i].status = "queued"}
           ord == ordered(msgs, all)
           rows == [k \in 1..Min(Len(ord), QUEUE_LIMIT) |-> RowDict(msgs, ord[k])]
       IN  /\ queued' = rows
           /\ IF rows = <<>>
              THEN /\ work_available' = FALSE
                   /\ waited' = 0
                   /\ wpc' = "wait"
              ELSE /\ wpc' = "fetched"
                   /\ UNCHANGED <<work_available, waited>>
    /\ UNCHANGED <<msgs, accounts, now, stopping, in_flight, semaphore, tasks,
                   spc, drained, reqs, drafts, orphans>>
    /\ UNCHANGED <<pvars, rest>>

\* worker.py:54-62: the loop test and the read of the queue; when nothing was
\* read the loop clears the event and starts to wait for it before any other
\* coroutine runs, no await lying between the return of the read and the wait
PollQuery ==
    /\ wpc = "top" /\ ~stopping
    /\ LET rows == get_queued_messages(msgs, now, QUEUE_LIMIT)
       IN  /\ queued' = rows
           /\ IF rows = <<>>
              THEN /\ work_available' = FALSE
                   /\ waited' = 0
                   /\ wpc' = "wait"
              ELSE /\ wpc' = "fetched"
                   /\ UNCHANGED <<work_available, waited>>
    /\ UNCHANGED <<msgs, accounts, now, stopping, in_flight, semaphore, tasks,
                   spc, drained, reqs, drafts, orphans>>
    /\ UNCHANGED <<pvars, rest>>

\* worker.py:54: the loop ends once it sees _stopping
PollExit ==
    /\ wpc = "top" /\ stopping
    /\ wpc' = "exited"
    /\ UNCHANGED <<msgs, accounts, now, stopping, work_available, in_flight,
                   semaphore, queued, tasks, waited, spc, drained, reqs, drafts, orphans>>
    /\ UNCHANGED <<pvars, rest>>

\* worker.py:60-65: the event is set, or the 5 s timeout has passed
PollWake ==
    /\ wpc = "wait"
    /\ work_available \/ waited >= POLL_TIMEOUT
    /\ wpc' = "top"
    /\ waited' = 0
    /\ UNCHANGED <<msgs, accounts, now, stopping, work_available, in_flight,
                   semaphore, queued, tasks, spc, drained, reqs, drafts, orphans>>
    /\ UNCHANGED <<pvars, rest>>

\* worker.py:67-76: reserve the rows not in flight and gather their tasks
PollSpawn ==
    /\ wpc = "fetched" /\ queued # <<>>
    /\ LET fresh == {k \in 1..Len(queued) : queued[k].id \notin in_flight}
           ids == {queued[k].id : k \in fresh}
           rowOf(i) == queued[CHOOSE k \in fresh : queued[k].id = i]
       IN /\ in_flight' = in_flight \cup ids
          /\ tasks' = [i \in (DOMAIN tasks) \cup ids |->
                         IF i \in ids
                         THEN [pc |-> "claim", row |-> rowOf(i), result |-> NoResult]
                         ELSE tasks[i]]
          /\ wpc' = IF ids = {} THEN "top" ELSE "gather"
    /\ queued' = <<>>
    /\ UNCHANGED <<msgs, accounts, now, stopping, work_available, semaphore,
                   waited, spc, drained, reqs, drafts, orphans>>
    /\ UNCHANGED <<pvars, rest>>

\* worker.py:76: gather returns when every task has finished
GatherDone ==
    /\ wpc = "gather" /\ DOMAIN tasks = {}
    /\ wpc' = "top"
    /\ UNCHANGED <<msgs, accounts, now, stopping, work_available, in_flight,
                   semaphore, queued, tasks, waited, spc, drained, reqs, drafts, orphans>>
    /\ UNCHANGED <<pvars, rest>>

\* _process_message that ignores the result of the claim
ClaimIgnored(id) ==
    /\ id \in DOMAIN tasks /\ tasks[id].pc = "claim"
    /\ semaphore > 0
    /\ semaphore' = semaphore - 1
    /\ msgs' = claim_message(msgs, id)
    /\ tasks' = [tasks EXCEPT ![id].pc = "account"]
    /\ UNCHANGED <<accounts, now, in_flight, loopvars, reqs, drafts, orphans>>
    /\ UNCHANGED <<pvars, rest>>

\* worker.py:87-88: enter the semaphore and run the conditional update
Claim(id) ==
    /\ id \in DOMAIN tasks /\ tasks[id].pc = "claim"
    /\ semaphore > 0
    /\ semaphore' = semaphore - 1
    /\ msgs' = claim_message(msgs, id)
    /\ tasks' = [tasks EXCEPT ![id].pc = IF claimable(msgs, id) THEN "account"
                                         ELSE "unclaimed"]
    /\ UNCHANGED <<accounts, now, in_flight, loopvars, reqs, drafts, orphans>>
    /\ UNCHANGED <<pvars, rest>>

\* worker.py:89-90 and 124-125: the claim failed, the task returns
Unclaimed(id) ==
    /\ id \in DOMAIN tasks /\ tasks[id].pc = "unclaimed"
    /\ Finish(id)
    /\ UNCHANGED <<msgs, accounts, now, loopvars, reqs, drafts, orphans>>
    /\ UNCHANGED <<pvars, rest>>

\* worker.py:92-95
LoadAccount(id) ==
    /\ id \in DOMAIN tasks /\ tasks[id].pc = "account"
    /\ Goto(id, IF tasks[id].row.account_id \in accounts THEN "send" ELSE "no_account")
    /\ UNCHANGED <<msgs, accounts, now, loopvars, reqs, drafts, orphans>>
    /\ UNCHANGED <<pvars, rest>>

\* worker.py:99-112: build the message and submit it; the server answers
Send(id, reply) ==
    /\ id \in DOMAIN tasks /\ tasks[id].pc = "send"
    /\ LET r == send_message(build_mime_message_id, reply)
       IN tasks' = [tasks EXCEPT ![id].result = r,
                                 ![id].pc = IF r.kind = "exception" THEN "exception"
                                            ELSE "result"]
    /\ UNCHANGED <<msgs, accounts, now, in_flight, semaphore, loopvars, reqs, drafts, orphans>>
    /\ UNCHANGED <<pvars, rest>>

\* worker.py:113
MarkSent(id) ==
    /\ id \in DOMAIN tasks /\ tasks[id].pc = "result"
    /\ tasks[id].result.kind = "ok"
    /\ msgs' = mark_sent(msgs, id, tasks[id].result.message_id, now)
    /\ Finish(id)
    /\ UNCHANGED <<accounts, now, loopvars, reqs, drafts, orphans>>
    /\ UNCHANGED <<pvars, rest>>

\* worker.py:115-116
HandleSendError(id) ==
    /\ id \in DOMAIN tasks /\ tasks[id].pc = "result"
    /\ tasks[id].result.kind = "SmtpSendError"
    /\ msgs' = handle_send_error(msgs, id, tasks[id].row, tasks[id].result, now)
    /\ Finish(id)
    /\ UNCHANGED <<accounts, now, loopvars, reqs, drafts, orphans>>
    /\ UNCHANGED <<pvars, rest>>

\* a task that returns on a missing account or an unexpected exception
\* without marking the row
MarkFailedSkipped(id) ==
    /\ id \in DOMAIN tasks /\ tasks[id].pc \in {"no_account", "exception"}
    /\ Finish(id)
    /\ UNCHANGED <<msgs, accounts, now, loopvars, reqs, drafts, orphans>>
    /\ UNCHANGED <<pvars, rest>>

\* worker.py:95-97 and 118-123
MarkFailed(id) ==
    /\ id \in DOMAIN tasks /\ tasks[id].pc \in {"no_account", "exception"}
    /\ msgs' = mark_failed(msgs, id, IF tasks[id].pc = "no_account"
                                     THEN "Account not found"
                                     ELSE "Internal worker error")
    /\ Finish(id)
    /\ UNCHANGED <<accounts, now, loopvars, reqs, drafts, orphans>>
    /\ UNCHANGED <<pvars, rest>>

\* the poll task is cancelled: gather cancels every running send task, each
\* leaves through its finally clause
Cancelled ==
    /\ tasks' = NoTasks
    /\ in_flight' = {}
    /\ semaphore' = WORKER_CONCURRENCY
    /\ queued' = <<>>
    /\ waited' = 0

\* worker.py:34-43: set the flag, wake the loop, first look at the in-flight set
StopBegin ==
    /\ wpc \notin {"init", "recovered"} /\ spc = "idle"
    /\ \A i \in DOMAIN reqs : reqs[i].pc = "done"
    /\ stopping' = TRUE
    /\ work_available' = TRUE
    /\ IF wpc = "exited"
       THEN /\ spc' = "stopped"
            /\ UNCHANGED <<wpc, tasks, in_flight, semaphore, queued, waited, drained>>
       ELSE IF in_flight = {}
       THEN /\ spc' = "stopped" /\ wpc' = "cancelled" /\ Cancelled
            /\ UNCHANGED drained
       ELSE /\ spc' = "drain" /\ drained' = 0
            /\ UNCHANGED <<wpc, tasks, in_flight, semaphore, queued, waited>>
    /\ UNCHANGED <<msgs, accounts, now, reqs, drafts, orphans>>
    /\ UNCHANGED <<pvars, rest>>

\* a stop() that cancels the poll task without draining
StopDrainAtOnce ==
    /\ spc = "drain"
    /\ spc' = "stopped"
    /\ drained' = 0
    /\ wpc' = IF wpc = "exited" THEN "exited" ELSE "cancelled"
    /\ Cancelled
    /\ UNCHANGED <<msgs, accounts, now, stopping, work_available, reqs, drafts, orphans>>
    /\ UNCHANGED <<pvars, rest>>

\* worker.py:39-47: the drain loop ends (set empty, or 60 sleeps of 0.5 s) and
\* the poll task is cancelled
StopDrain ==
    /\ spc = "drain"
    /\ in_flight = {} \/ drained >= DRAIN_BUDGET
    /\ spc' = "stopped"
    /\ drained' = 0
    /\ wpc' = IF wpc = "exited" THEN "exited" ELSE "cancelled"
    /\ Cancelled
    /\ UNCHANGED <<msgs, accounts, now, stopping, work_available, reqs, drafts, orphans>>
    /\ UNCHANGED <<pvars, rest>>

\* ----------------------------------------------------------- POST /send
\* main.py:147-163: look the account up and insert the tracking row; nothing
\* is counted and nothing is compared with the account's rate_limit_per_hour.
\* The table holds at most `rows` rows.
SendEmailAdmit(wait, rows) ==
    /\ wpc \notin {"init", "recovered"} /\ spc = "idle"
    /\ Account \in accounts
    /\ Len(msgs) < rows
    /\ msgs' = create_message(msgs, Account)
    /\ reqs' = Append(reqs, [kind |-> IF wait THEN "sync" ELSE "async",
                             draft |-> 0, pc |-> "created"])
    /\ UNCHANGED <<accounts, now, wvars, drafts, orphans>>
    /\ UNCHANGED <<pvars, rest>>

SendEmailCreate(wait) == SendEmailAdmit(wait, MaxMsgs)

\* a handler that returns without waking the worker
SendEmailNotifyLost(id) ==
    /\ id \in DOMAIN reqs /\ reqs[id].pc = "created" /\ reqs[id].kind = "async"
    /\ reqs' = [reqs EXCEPT ![id].pc = "done"]
    /\ UNCHANGED <<msgs, accounts, now, wvars, drafts, orphans>>
    /\ UNCHANGED <<pvars, rest>>

\* main.py:166-168: wait = false, wake the worker
SendEmailNotify(id) ==
    /\ id \in DOMAIN reqs /\ reqs[id].pc = "created" /\ reqs[id].kind = "async"
    /\ work_available' = TRUE
    /\ reqs' = [reqs EXCEPT ![id].pc = "done"]
    /\ UNCHANGED <<msgs, accounts, now, stopping, in_flight, semaphore, wpc,
                   queued, tasks, waited, spc, drained, drafts, orphans>>
    /\ UNCHANGED <<pvars, rest>>

\* main.py:179-197: wait = true, submit now and record the outcome; an
\* exception send_message does not classify leaves the handler
SendEmailFinish(id, reply) ==
    /\ id \in DOMAIN reqs /\ reqs[id].pc = "created" /\ reqs[id].kind = "sync"
    /\ LET r == send_message(build_mime_message_id, reply)
       IN msgs' = CASE r.kind = "ok" -> mark_sent(msgs, id, r.message_id, now)
                    [] r.kind = "SmtpSendError" -> mark_failed(msgs, id, r.message)
                    [] OTHER -> msgs
    /\ reqs' = [reqs EXCEPT ![id].pc = "done"]
    /\ UNCHANGED <<accounts, now, wvars, drafts, orphans>>
    /\ UNCHANGED <<pvars, rest>>

\* ------------------------------------------------- draft send and approve
\* drafts.py:154-161
mark_draft_sent(ds, d, message_id, t) ==
    [ds EXCEPT ![d].status = "sent", ![d].message_id = message_id,
               ![d].sent_at = t]

\* drafts.py:105-140, called with metadata only: a draft that is no longer
\* 'draft' is left alone
update_draft_metadata(ds, d, approved_by) ==
    IF ds[d].status # "draft" THEN ds
    ELSE [ds EXCEPT ![d].approved_by = approved_by]

\* main.py:461-502: the draft is read and must be 'draft'; the approval is
\* recorded in its metadata; the tracking row is inserted
SendDraftCreate(d, approved_by) ==
    /\ wpc \notin {"init", "recovered"} /\ spc = "idle"
    /\ d \in DOMAIN drafts /\ drafts[d].status = "draft"
    /\ Account \in accounts
    /\ Len(msgs) < MaxMsgs
    /\ drafts' = IF approved_by # None
                 THEN update_draft_metadata(drafts, d, approved_by)
                 ELSE drafts
    /\ msgs' = create_message(msgs, Account)
    /\ reqs' = Append(reqs, [kind |-> "draft", draft |-> d, pc |-> "created"])
    /\ UNCHANGED <<accounts, now, wvars, orphans>>
    /\ UNCHANGED <<pvars, rest>>

\* main.py:504-515: submit; on SmtpSendError the row fails and the draft stays;
\* on success the row and then the draft are marked sent
SendDraftFinish(id, reply) ==
    /\ id \in DOMAIN reqs /\ reqs[id].pc = "created" /\ reqs[id].kind = "draft"
    /\ LET r == send_message(build_mime_message_id, reply)
       IN /\ msgs' = CASE r.kind = "ok" -> mark_sent(msgs, id, r.message_id, now)
                       [] r.kind = "SmtpSendError" -> mark_failed(msgs, id, r.message)
                       [] OTHER -> msgs
          /\ drafts' = IF r.kind = "ok"
                       THEN mark_draft_sent(drafts, reqs[id].draft, id, now)
                       ELSE drafts
    /\ reqs' = [reqs EXCEPT ![id].pc = "done"]
    /\ UNCHANGED <<accounts, now, wvars, orphans>>
    /\ UNCHANGED <<pvars, rest>>

\* ------------------------------------------------------------ environment
Tick ==
    /\ now + TickStep <= MaxTime
    /\ now' = now + TickStep
    /\ waited' = IF wpc = "wait" THEN Min(waited + TickStep, POLL_TIMEOUT) ELSE waited
    /\ drained' = IF spc = "drain" THEN Min(drained + TickStep, DRAIN_BUDGET) ELSE drained
    /\ UNCHANGED <<msgs, accounts, stopping, work_available, in_flight, semaphore,
                   wpc, queued, tasks, spc, reqs, drafts, orphans>>
    /\ UNCHANGED <<pvars, rest>>

\* the clock without an end: once `now` stands at MaxTime the origin of the
\* time stamps moves forward instead, which leaves every comparison of a time
\* stamp with `now` as it is
Shifted(t) == IF t = NoTime THEN NoTime ELSE IF t >= TickStep THEN t - TickStep ELSE 0

TimePasses ==
    /\ IF now + TickStep <= MaxTime
       THEN /\ now' = now + TickStep
            /\ msgs' = msgs
       ELSE /\ now' = now
            /\ msgs' = [i \in DOMAIN msgs |->
                          [msgs[i] EXCEPT !.next_retry_at = Shifted(@),
                                          !.sent_at = Shifted(@)]]
    /\ waited' = IF wpc = "wait" THEN Min(waited + TickStep, POLL_TIMEOUT) ELSE waited
    /\ drained' = IF spc = "drain" THEN Min(drained + TickStep, DRAIN_BUDGET) ELSE drained
    /\ UNCHANGED <<accounts, stopping, work_available, in_flight, semaphore,
                   wpc, queued, tasks, spc, reqs, drafts, orphans>>
    /\ UNCHANGED <<pvars, rest>>

\* the process dies (crash or exit after stop) and is started again: only the
\* store survives
Restart ==
    /\ wpc # "init"
    /\ wpc' = "init" /\ spc' = "idle" /\ drained' = 0
    /\ stopping' = FALSE /\ work_available' = FALSE
    /\ Cancelled
    /\ reqs' = [i \in DOMAIN reqs |-> [reqs[i] EXCEPT !.pc = "done"]]
    /\ orphans' = {}
    /\ UNCHANGED <<msgs, accounts, now, drafts>>
    /\ UNCHANGED <<pvars, rest>>

\* ------------------------------------------------------ SMTP connection pool
\* The coroutines inside acquire are alike: `callers` is the bag of their
\* local states, one copy for each coroutine.

\* the readings of the monotonic clock that are told apart: the start and
\* the two limits counted from it
Instants == {0, max_idle_seconds, max_lifetime_seconds}

\* pool.py:25-29
PooledConnection(t, version) ==
    [created_at |-> t, returned_at |-> t, credential_version |-> version,
     open |-> TRUE]

\* the number of coroutines between `await sem.acquire()` and `sem.release()`
Leases == BagCardinality(callers)

\* the locals of a coroutine that has left the loop of _get_or_create
Position(pc, current_version, conn) ==
    [pc |-> pc, now |-> 0, current_version |-> current_version, idle_list |-> 0,
     conn |-> conn]

\* the locals at the entry of _get_or_create (pool.py:80-83)
Entered == [pc |-> "loop", now |-> mono, current_version |-> credential_version,
            idle_list |-> idle, conn |-> 0]

Elements(list) == {list[n] : n \in 1..Len(list)}

\* Objects nothing refers to any more are dropped: a list that is neither the
\* idle list of the account nor the idle_list of a coroutine (close_all and
\* the cleanup task included), and a closed connection that is in no list,
\* with no coroutine and in no close task.
Dropped == [created_at |-> 0, returned_at |-> 0, credential_version |-> 0,
            open |-> FALSE]

CommitAll(cs, ls, idl, cl, clo, cr, sw) ==
    LET refs == {idl, cr.idle_list, sw.idle_list}
                   \cup {r.idle_list : r \in BagToSet(cl)}
        kept == [l \in DOMAIN ls |-> IF l \in refs THEN ls[l] ELSE <<>>]
        used == UNION {Elements(kept[l]) : l \in DOMAIN kept}
                   \cup {r.conn : r \in BagToSet(cl)} \cup clo \cup {cr.conn}
                   \cup Elements(sw.keep) \cup {sw.conn}
    IN /\ lists' = kept
       /\ conns' = [k \in DOMAIN cs |->
                       IF k \in used \/ cs[k].open THEN cs[k] ELSE Dropped]
       /\ idle' = idl
       /\ callers' = cl
       /\ closing' = clo

CommitWith(cs, ls, idl, cl, clo, cr) == CommitAll(cs, ls, idl, cl, clo, cr, sweep)

Commit(cs, ls, idl, cl, clo) == CommitWith(cs, ls, idl, cl, clo, closer)

Moved(me, next) == (callers (-) SetToBag({me})) (+) SetToBag({next})
Left(me) == callers (-) SetToBag({me})

\* pool.py:88-98: the three eviction tests of _get_or_create, made with the
\* version and the time read at its entry
evict(conn, current_version, t) ==
    \/ conn.credential_version # current_version
    \/ t - conn.created_at > max_lifetime_seconds
    \/ t - conn.returned_at > max_idle_seconds

\* pool.py:136-143
close_connection(cs, k) == [cs EXCEPT ![k].open = FALSE]

\* pool.py:85-102 and 111-112: _get_or_create runs from the top of its loop
\* to its next await. The list is empty: go and connect. Else the last
\* connection is popped and tested: it is to be closed, or to be probed. The
\* result is the locals of the coroutine and the list objects after that.
get_or_create(me, ls, cs) ==
    LET l == me.idle_list
    IN IF l = 0 \/ ls[l] = <<>>
       THEN [me |-> Position("connect", me.current_version, 0), lists |-> ls]
       ELSE LET k == ls[l][Len(ls[l])]
            IN [me |-> [me EXCEPT
                          !.conn = k,
                          !.pc = IF evict(cs[k], me.current_version, me.now)
                                 THEN "evict" ELSE "noop"],
                lists |-> [ls EXCEPT ![l] = SubSeq(@, 1, Len(@) - 1)]]

\* acquire that does not wait for the semaphore
AcquireUnbounded ==
    /\ Leases < NumCallers
    /\ LET r == get_or_create(Entered, lists, conns)
       IN Commit(conns, r.lists, idle, callers (+) SetToBag({r.me}), closing)
    /\ UNCHANGED <<sem, credential_version, mono>>
    /\ UNCHANGED <<svars, cvars>>

\* pool.py:61-66 and 80-86: one more coroutine calls acquire and gets a slot of
\* the semaphore; _get_or_create reads the clock, the version and the idle list
\* of the account and enters its loop
Acquire ==
    /\ Leases < NumCallers
    /\ sem > 0
    /\ sem' = sem - 1
    /\ LET r == get_or_create(Entered, lists, conns)
       IN Commit(conns, r.lists, idle, callers (+) SetToBag({r.me}), closing)
    /\ UNCHANGED <<credential_version, mono>>
    /\ UNCHANGED <<svars, cvars>>

\* pool.py:89-90, 93-94, 97-98, 106-107: the candidate is closed and the loop
\* goes on
CloseCandidate(me) ==
    /\ me.pc = "evict"
    /\ LET cs == close_connection(conns, me.conn)
           r == get_or_create(me, lists, cs)
       IN Commit(cs, r.lists, idle, Moved(me, r.me), closing)
    /\ UNCHANGED <<sem, credential_version, mono>>
    /\ UNCHANGED <<svars, cvars>>

\* pool.py:100-107: NOOP on the candidate; a closed connection cannot answer
Noop(me, alive) ==
    /\ me.pc = "noop"
    /\ alive => conns[me.conn].open
    /\ Commit(conns, lists, idle,
              Moved(me, IF alive THEN Position("held", 0, me.conn)
                        ELSE [me EXCEPT !.pc = "evict"]),
              closing)
    /\ UNCHANGED <<sem, credential_version, mono>>
    /\ UNCHANGED <<svars, cvars>>

\* pool.py:118-125: client.connect(); a failure leaves acquire through its
\* finally clause, which gives the slot back
Connect(me, ok) ==
    /\ me.pc = "connect"
    /\ IF ok
       THEN /\ Len(conns) < MaxConns
            /\ Commit(conns, lists, idle, Moved(me, [me EXCEPT !.pc = "login"]), closing)
            /\ UNCHANGED sem
       ELSE /\ Commit(conns, lists, idle, Left(me), closing)
            /\ sem' = sem + 1
    /\ UNCHANGED <<credential_version, mono>>
    /\ UNCHANGED <<svars, cvars>>

\* pool.py:126-134: client.login(); the connection is stamped with the version
\* read at the entry of _get_or_create. A coroutine at "login" holds the
\* client that has connected; when login raises, _create_connection and
\* _get_or_create are left by the exception with `conn` of acquire still None,
\* so that the finally clause (pool.py:74-77) closes nothing and only gives
\* the slot back
Login(me, ok) ==
    /\ me.pc = "login"
    /\ IF ok
       THEN /\ Commit(Append(conns, PooledConnection(mono, me.current_version)),
                      lists, idle,
                      Moved(me, Position("held", 0, Len(conns) + 1)), closing)
            /\ UNCHANGED sem
       ELSE /\ Commit(conns, lists, idle, Left(me), closing)
            /\ sem' = sem + 1
    /\ UNCHANGED <<credential_version, mono>>
    /\ UNCHANGED <<svars, cvars>>

\* pool.py:67-71 and 77: the body ended normally, the connection goes back to
\* the idle list of the account and the slot is given back
Release(me) ==
    /\ me.pc = "held"
    /\ LET cs == [conns EXCEPT ![me.conn].returned_at = mono]
       IN IF idle = 0
          THEN Commit(cs, Append(lists, <<me.conn>>), Len(lists) + 1, Left(me), closing)
          ELSE Commit(cs, [lists EXCEPT ![idle] = Append(@, me.conn)], idle,
                      Left(me), closing)
    /\ sem' = sem + 1
    /\ UNCHANGED <<credential_version, mono>>
    /\ UNCHANGED <<svars, cvars>>

\* pool.py:72-76: the body raised
Raise(me) ==
    /\ me.pc = "held"
    /\ Commit(conns, lists, idle, Moved(me, [me EXCEPT !.pc = "closing"]), closing)
    /\ UNCHANGED <<sem, credential_version, mono>>
    /\ UNCHANGED <<svars, cvars>>

\* the finally clause puts the connection back instead of closing it
CloseLeaseReturns(me) ==
    /\ me.pc = "closing"
    /\ LET cs == [conns EXCEPT ![me.conn].returned_at = mono]
       IN IF idle = 0
          THEN Commit(cs, Append(lists, <<me.conn>>), Len(lists) + 1, Left(me), closing)
          ELSE Commit(cs, [lists EXCEPT ![idle] = Append(@, me.conn)], idle,
                      Left(me), closing)
    /\ sem' = sem + 1
    /\ UNCHANGED <<credential_version, mono>>
    /\ UNCHANGED <<svars, cvars>>

\* pool.py:75-77: the connection is closed and the slot given back
CloseLease(me) ==
    /\ me.pc = "closing"
    /\ Commit(close_connection(conns, me.conn), lists, idle, Left(me), closing)
    /\ sem' = sem + 1
    /\ UNCHANGED <<credential_version, mono>>
    /\ UNCHANGED <<svars, cvars>>

\* invalidate_account that drops the idle connections without closing them
invalidate_without_close ==
    /\ credential_version < MaxVersion
    /\ credential_version' = credential_version + 1
    /\ Commit(conns, lists, 0, callers, closing)
    /\ UNCHANGED <<sem, mono>>
    /\ UNCHANGED <<svars, cvars>>

\* pool.py:50-57
invalidate_account ==
    /\ credential_version < MaxVersion
    /\ credential_version' = credential_version + 1
    /\ Commit(conns, lists, 0, callers,
              IF idle = 0 THEN closing ELSE closing \cup Elements(lists[idle]))
    /\ UNCHANGED <<sem, mono>>
    /\ UNCHANGED <<svars, cvars>>

\* pool.py:56: one of the close tasks invalidate_account scheduled runs
CloseStale(k) ==
    /\ k \in closing
    /\ Commit(close_connection(conns, k), lists, idle, callers, closing \ {k})
    /\ UNCHANGED <<sem, credential_version, mono>>
    /\ UNCHANGED <<svars, cvars>>

\* time.monotonic advances
Elapse(t) ==
    /\ t > mono
    /\ mono' = t
    /\ UNCHANGED <<conns, lists, idle, credential_version, sem, closing, callers>>
    /\ UNCHANGED <<svars, cvars>>

\* -------------------------------------------------------- the cleanup task
\* the locals of _evict_stale (pool.py:154-170) for the one account: the
\* clock it read, the list it iterates, how many elements of it the for loop
\* has taken, `keep`, and the connection whose close it awaits; `sweeps`
\* counts the sweeps begun
Sweeper(pc, t, idle_list, taken, keep, conn, sweeps) ==
    [pc |-> pc, now |-> t, idle_list |-> idle_list, taken |-> taken,
     keep |-> keep, conn |-> conn, sweeps |-> sweeps]

\* pool.py:149-152: the task is in its sleep
Asleep(sweeps) == Sweeper("sleep", 0, 0, 0, <<>>, 0, sweeps)

\* pool.py:161-164: the test of _evict_stale, made with the clock read at
\* its entry
stale(conn, t) ==
    \/ t - conn.returned_at > max_idle_seconds
    \/ t - conn.created_at > max_lifetime_seconds

\* pool.py:160-166: the for loop over the list object runs to its next await:
\* it takes the element at its index, if the list still has one there, and
\* either awaits its close or appends it to `keep`
RECURSIVE evict_stale(_, _, _)
evict_stale(sw, ls, cs) ==
    IF sw.taken < Len(ls[sw.idle_list])
    THEN LET k == ls[sw.idle_list][sw.taken + 1]
         IN IF stale(cs[k], sw.now)
            THEN [sw EXCEPT !.pc = "quit", !.taken = @ + 1, !.conn = k]
            ELSE evict_stale([sw EXCEPT !.taken = @ + 1, !.keep = Append(@, k)],
                             ls, cs)
    ELSE [sw EXCEPT !.pc = "end"]

\* pool.py:167-170: the loop is suspended in a close, or it has ended: then
\* `keep` becomes the list of the account, or the entry of the account is
\* popped, and the task sleeps again
Swept(sw, cs) ==
    IF sw.pc = "quit"
    THEN /\ sweep' = sw
         /\ CommitAll(cs, lists, idle, callers, closing, closer, sw)
    ELSE /\ sweep' = Asleep(sw.sweeps)
         /\ IF sw.keep # <<>>
            THEN CommitAll(cs, Append(lists, sw.keep), Len(lists) + 1, callers,
                           closing, closer, Asleep(sw.sweeps))
            ELSE CommitAll(cs, lists, 0, callers, closing, closer,
                           Asleep(sw.sweeps))

\* pool.py:151-159: the sleep of the cleanup task returns and _evict_stale
\* reads the clock and the list of the account; without an entry for the
\* account the sweep changes nothing
EvictStale ==
    /\ cleanup_task = "running"
    /\ sweep.pc = "sleep"
    /\ sweep.sweeps < MaxSweeps
    /\ idle # 0
    /\ Swept(evict_stale(Sweeper("loop", mono, idle, 0, <<>>, 0, sweep.sweeps + 1),
                         lists, conns),
             conns)
    /\ UNCHANGED <<credential_version, sem, mono, cleanup_task, closer>>
    /\ UNCHANGED svars

\* pool.py:165: the close the loop awaited returns and the loop goes on
EvictQuit ==
    /\ cleanup_task = "running"
    /\ sweep.pc = "quit"
    /\ LET cs == close_connection(conns, sweep.conn)
       IN Swept(evict_stale([sweep EXCEPT !.pc = "loop", !.conn = 0], lists, cs), cs)
    /\ UNCHANGED <<credential_version, sem, mono, cleanup_task, closer>>
    /\ UNCHANGED svars

\* ------------------------------------------------- pool start and shutdown
\* the locals of close_all: its position, the list it popped from self._idle,
\* how many elements of it the for loop has taken, and the connection it is
\* closing
Closer(pc, idle_list, taken, conn) ==
    [pc |-> pc, idle_list |-> idle_list, taken |-> taken, conn |-> conn]

\* pool.py:145-147, called once when the application starts (main.py:35),
\* before the close_all of its shutdown (main.py:49)
start_cleanup_task ==
    /\ closer.pc = "idle"
    /\ cleanup_task \in {"None", "done"}
    /\ cleanup_task' = "running"
    /\ UNCHANGED <<conns, lists, idle, credential_version, sem, closing, callers,
                   mono, closer, sweep>>
    /\ UNCHANGED svars

\* pool.py:180-182: the for loop over a list takes its next element, if the
\* list still has one at that index, and awaits its close; else close_all
\* returns
next_conn(cr, ls) ==
    IF cr.idle_list # 0 /\ cr.taken < Len(ls[cr.idle_list])
    THEN Closer("quit", cr.idle_list, cr.taken + 1, ls[cr.idle_list][cr.taken + 1])
    ELSE Closer("done", 0, 0, 0)

\* pool.py:180-182: the list of the account is popped from self._idle and
\* the loop over it starts
pop_idle ==
    LET cr == next_conn(Closer("pop", idle, 0, 0), lists)
    IN /\ closer' = cr
       /\ CommitWith(conns, lists, 0, callers, closing, cr)

\* pool.py:173-178 the cleanup task is not running: close_all goes on to
\* its loop without waiting
CloseAllBegin ==
    /\ closer.pc = "idle"
    /\ cleanup_task # "running"
    /\ pop_idle
    /\ UNCHANGED <<credential_version, sem, mono, cleanup_task, sweep>>
    /\ UNCHANGED svars

\* pool.py:173-176: the cleanup task is cancelled and awaited
CloseAllCancel ==
    /\ closer.pc = "idle"
    /\ cleanup_task = "running"
    /\ closer' = Closer("cancel", 0, 0, 0)
    /\ UNCHANGED <<conns, lists, idle, credential_version, sem, closing, callers,
                   mono, cleanup_task, sweep>>
    /\ UNCHANGED svars

\* pool.py:149-152: the cancelled task ends at the await it is suspended in,
\* its sleep or a close of _evict_stale, and its locals are gone
CleanupCancelled ==
    /\ closer.pc = "cancel"
    /\ cleanup_task = "running"
    /\ cleanup_task' = "done"
    /\ sweep' = Asleep(sweep.sweeps)
    /\ CommitAll(conns, lists, idle, callers, closing, closer, Asleep(sweep.sweeps))
    /\ UNCHANGED <<credential_version, sem, mono, closer>>
    /\ UNCHANGED svars

\* pool.py:176-182: the await of the cancelled task returns
CloseAllPop ==
    /\ closer.pc = "cancel"
    /\ cleanup_task = "done"
    /\ pop_idle
    /\ UNCHANGED <<credential_version, sem, mono, cleanup_task, sweep>>
    /\ UNCHANGED svars

\* pool.py:181-182: the connection is closed and the loop goes on
CloseAllQuit ==
    /\ closer.pc = "quit"
    /\ LET cr == next_conn(closer, lists)
       IN /\ closer' = cr
          /\ CommitWith(close_connection(conns, closer.conn), lists, idle,
                        callers, closing, cr)
    /\ UNCHANGED <<credential_version, sem, mono, cleanup_task, sweep>>
    /\ UNCHANGED svars

\* ------------------------------------------------------- requests on a draft
\* The handlers of PUT, DELETE, POST .../send, .../approve and .../reject of
\* one draft, each cut at its awaits. `content` stands for the fields PUT
\* sets; approved_by and rejected are the keys of the metadata.
DraftKinds == {"update", "discard", "send", "approve", "reject"}
Sending == {"send", "approve"}

\* the metadata of a draft row
Metadata(row) == [approved_by |-> row.approved_by, rejected |-> row.rejected]

\* requests that will insert a row into messages and have not done so yet
ToCreate == {i \in DOMAIN dreqs : dreqs[i].kind \in Sending
                                  /\ dreqs[i].pc \in {"read", "write", "create"}}

\* where a handler goes on after its call of drafts.update_draft
AfterUpdate(kind) ==
    CASE kind = "approve" -> "create"
      [] kind = "reject" -> "discard"
      [] OTHER -> "done"

\* drafts.py:143-151: UPDATE ... WHERE id = ? AND status = 'draft'
discard_draft(ds, d) ==
    IF ds[d].status = "draft" THEN [ds EXCEPT ![d].status = "discarded"] ELSE ds

\* drafts.py:134-138: UPDATE drafts SET ... WHERE id = ?, with the fields the
\* handler passed: the content (main.py:412-425), or the metadata read at the
\* top of the handler with the key the handler added (main.py:469-474,
\* 554-559)
update_fields(ds, r) ==
    CASE r.kind = "update" -> [ds EXCEPT ![r.draft].content = r.value]
      [] r.kind = "approve" ->
           [ds EXCEPT ![r.draft].approved_by = "review-queue",
                      ![r.draft].rejected = r.meta.rejected]
      [] r.kind = "reject" ->
           [ds EXCEPT ![r.draft].approved_by = r.meta.approved_by,
                      ![r.draft].rejected = TRUE]
      [] OTHER -> ds

\* main.py:408-411, 432-435, 461-465, 535-538, 546-550: the handler reads the
\* draft; all but DELETE refuse a draft that is not 'draft' with 409. The
\* messages table holds at most `rows` rows.
DraftAdmit(kind, d, value, rows) ==
    /\ Len(dreqs) < MaxDraftReqs
    /\ d \in DOMAIN drafts
    /\ kind \in Sending => Len(msgs) + Cardinality(ToCreate) < rows
    /\ kind # "update" => value = 0
    /\ LET r == [kind |-> kind, draft |-> d, value |-> value,
                 meta |-> Metadata(drafts[d]), msg |-> 0, response |-> 0]
       IN dreqs' = Append(dreqs,
             CASE kind = "discard" -> r @@ [pc |-> "discard"]
               [] drafts[d].status # "draft" ->
                    [r EXCEPT !.response = 409] @@ [pc |-> "done"]
               [] kind = "send" -> r @@ [pc |-> "create"]
               [] OTHER -> r @@ [pc |-> "read"])
    /\ UNCHANGED <<msgs, accounts, now, wvars, reqs, drafts, orphans>>
    /\ UNCHANGED <<pvars, avars>>

DraftBegin(kind, d, value) == DraftAdmit(kind, d, value, MaxMsgs)

\* drafts.py:106-110: update_draft reads the draft again and does nothing if
\* it is not 'draft'
UpdateRead(id) ==
    /\ id \in DOMAIN dreqs /\ dreqs[id].pc = "read"
    /\ dreqs' = [dreqs EXCEPT ![id].pc =
                    IF drafts[dreqs[id].draft].status # "draft"
                    THEN AfterUpdate(dreqs[id].kind) ELSE "write"]
    /\ UNCHANGED <<msgs, accounts, now, wvars, reqs, drafts, orphans>>
    /\ UNCHANGED <<pvars, avars>>

\* drafts.py:132-140: the UPDATE of update_draft
UpdateWrite(id) ==
    /\ id \in DOMAIN dreqs /\ dreqs[id].pc = "write"
    /\ drafts' = update_fields(drafts, dreqs[id])
    /\ dreqs' = [dreqs EXCEPT ![id].pc = AfterUpdate(dreqs[id].kind)]
    /\ UNCHANGED <<msgs, accounts, now, wvars, reqs, orphans>>
    /\ UNCHANGED <<pvars, avars>>

\* main.py:539-542 and 561-562: DELETE answers 409 if no row changed, reject
\* does not look at the result
DiscardDraft(id) ==
    /\ id \in DOMAIN dreqs /\ dreqs[id].pc = "discard"
    /\ drafts' = discard_draft(drafts, dreqs[id].draft)
    /\ dreqs' = [dreqs EXCEPT
                    ![id].pc = "done",
                    ![id].response =
                        IF dreqs[id].kind = "discard"
                           /\ drafts[dreqs[id].draft].status # "draft"
                        THEN 409 ELSE 200]
    /\ UNCHANGED <<msgs, accounts, now, wvars, reqs, orphans>>
    /\ UNCHANGED <<pvars, avars>>

\* main.py:492-500: the tracking row is inserted
DraftCreate(id) ==
    /\ id \in DOMAIN dreqs /\ dreqs[id].pc = "create"
    /\ msgs' = create_message(msgs, Account)
    /\ dreqs' = [dreqs EXCEPT ![id].pc = "send", ![id].msg = Len(msgs) + 1]
    /\ UNCHANGED <<accounts, now, wvars, reqs, drafts, orphans>>
    /\ UNCHANGED <<pvars, avars>>

\* main.py:503-514: the message is submitted; on SmtpSendError the row fails
\* and the answer is 502, on success the row is marked sent
DraftSend(id, reply) ==
    /\ id \in DOMAIN dreqs /\ dreqs[id].pc = "send"
    /\ LET r == send_message(build_mime_message_id, reply)
       IN /\ msgs' = CASE r.kind = "ok" ->
                             mark_sent(msgs, dreqs[id].msg, r.message_id, now)
                       [] r.kind = "SmtpSendError" ->
                             mark_failed(msgs, dreqs[id].msg, r.message)
                       [] OTHER -> msgs
          /\ dreqs' = [dreqs EXCEPT
                          ![id].pc = IF r.kind = "ok" THEN "mark" ELSE "done",
                          ![id].response = CASE r.kind = "ok" -> 0
                                             [] r.kind = "SmtpSendError" -> 502
                                             [] OTHER -> 500]
    /\ UNCHANGED <<accounts, now, wvars, reqs, drafts, orphans>>
    /\ UNCHANGED <<pvars, avars>>

\* main.py:515-521
DraftMarkSent(id) ==
    /\ id \in DOMAIN dreqs /\ dreqs[id].pc = "mark"
    /\ drafts' = mark_draft_sent(drafts, dreqs[id].draft, dreqs[id].msg, now)
    /\ dreqs' = [dreqs EXCEPT ![id].pc = "done", ![id].response = 200]
    /\ UNCHANGED <<msgs, accounts, now, wvars, reqs, orphans>>
    /\ UNCHANGED <<pvars, avars>>

\* ---------------------------------------------------------------- inbox agent
\* drafts.py:11-57: the row create_draft inserts; classification, confidence
\* and in_reply_to stand for the metadata and the header the agent passes
DraftRow(text_content, created_by, classification, confidence, in_reply_to) ==
    [status |-> "draft", message_id |-> 0, sent_at |-> NoTime,
     approved_by |-> None, rejected |-> FALSE, content |-> 0,
     text_content |-> text_content, created_by |-> created_by,
     classification |-> classification, confidence |-> confidence,
     in_reply_to |-> in_reply_to]

\* The contents the LLM may answer with: a JSON object (with its
\* classification, its confidence in hundredths and whether draft_reply is a
\* non-empty string), a JSON value that is not an object, or text that is not
\* JSON; each bare or inside a code fence.
Object(classification, confidence, draft_reply) ==
    [json |-> "object", classification |-> classification,
     confidence |-> confidence, draft_reply |-> draft_reply]
NotObject == [json |-> "array", classification |-> None, confidence |-> 0,
              draft_reply |-> FALSE]
NotJson == [json |-> "no", classification |-> None, confidence |-> 0,
            draft_reply |-> FALSE]
Bodies == {Object("auto_reply", 92, TRUE), Object("auto_reply", 92, FALSE),
           Object("draft_for_review", 60, TRUE), Object("escalate", 30, FALSE),
           Object("ignore", 95, FALSE), NotObject, NotJson}
LlmContents == [fenced : {FALSE}, body : Bodies]
                  \cup [fenced : {TRUE}, body : {Object("auto_reply", 92, TRUE)}]

\* inbox_agent.py:303-319: the fence lines are dropped, then json.loads: its
\* value is returned whatever its type, and only a JSONDecodeError gives the
\* escalation
parse_llm_response(content) ==
    IF content.body.json = "no"
    THEN [json |-> "object", classification |-> "escalate", confidence |-> 0,
          draft_reply |-> FALSE]
    ELSE content.body

\* the unique key of the journal row of an inbound message
\* (inbox_agent.py:427)
Key(u) == IF inbox[u].message_id # 0 THEN <<"Message-ID", inbox[u].message_id>>
          ELSE <<"uid", u>>

Journaled == {row.inbound_message_id : row \in agent_actions}

\* imap.py:75-79: the uids the search for UNSEEN returns, in order
RECURSIVE unseen(_, _)
unseen(box, u) ==
    IF u > Len(box) THEN <<>>
    ELSE (IF box[u].seen THEN <<>> ELSE <<u>>) \o unseen(box, u + 1)

\* polls[Loop] is the poll of _poll_loop (inbox_agent.py:93-105), which runs
\* one _do_poll at a time; the others are calls of poll_once
Loop == 1

NoContent == [fenced |-> FALSE, body |-> NotJson]
NoPoll == [pc |-> "idle", unread |-> <<>>, uid |-> 0, content |-> NoContent,
           classification |-> None, confidence |-> 0, draft_reply |-> FALSE,
           outbound_message_id |-> None, known |-> {}]

\* inbox_agent.py:130-137 and 139-142: the loop of _do_poll takes the next
\* message; _already_processed answers at once for one without Message-ID
next_message(r) ==
    IF r.unread = <<>> THEN NoPoll
    ELSE [NoPoll EXCEPT
            !.unread = Tail(r.unread), !.uid = Head(r.unread),
            !.known = r.known \cap ({Head(r.unread)} \cup Elements(Tail(r.unread))),
            !.pc = IF inbox[Head(r.unread)].message_id = 0 THEN "llm" ELSE "check"]

\* inbox_agent.py:108-128: a poll starts, from the loop or from poll_once;
\* `known` remembers which of the unread messages were journaled already
\* when they were fetched (history, not a local of the code)
PollBegin(p) ==
    /\ polls[p].pc = "idle"
    /\ polls' = [polls EXCEPT ![p] =
                   IF imap_up
                   THEN next_message(
                          [NoPoll EXCEPT
                             !.unread = unseen(inbox, 1),
                             !.known = {u \in DOMAIN inbox : Key(u) \in Journaled}])
                   ELSE NoPoll]
    /\ imap_up => unseen(inbox, 1) # <<>>
    /\ UNCHANGED <<inbox, imap_up, agent_actions, dreqs>>
    /\ UNCHANGED <<msgs, accounts, now, wvars, reqs, drafts, orphans>>
    /\ UNCHANGED pvars

\* inbox_agent.py:143-149
AlreadyProcessed(p) ==
    /\ polls[p].pc = "check"
    /\ polls' = [polls EXCEPT ![p] =
                   IF Key(polls[p].uid) \in Journaled THEN next_message(polls[p])
                   ELSE [polls[p] EXCEPT !.pc = "llm"]]
    /\ UNCHANGED <<inbox, imap_up, agent_actions, dreqs>>
    /\ UNCHANGED <<msgs, accounts, now, wvars, reqs, drafts, orphans>>
    /\ UNCHANGED pvars

\* inbox_agent.py:131 and 144-149: get_db or the SELECT of _already_processed
\* raises; the call is outside the try of the loop, so the exception leaves
\* _do_poll with the rest of the messages unhandled (the poll loop logs it,
\* inbox_agent.py:98-99; poll_once hands it to its caller)
AlreadyProcessedRaises(p) ==
    /\ polls[p].pc = "check"
    /\ polls' = [polls EXCEPT ![p] = NoPoll]
    /\ UNCHANGED <<inbox, imap_up, agent_actions, dreqs>>
    /\ UNCHANGED <<msgs, accounts, now, wvars, reqs, drafts, orphans>>
    /\ UNCHANGED pvars

\* inbox_agent.py:168-171 and llm.py:36-62: the LLM answers and
\* chat_completion has its content, or the call raises and the work on this
\* message ends (inbox_agent.py:136-137)
ChatCompletion(p, ok, content) ==
    /\ polls[p].pc = "llm"
    /\ polls' = [polls EXCEPT ![p] =
                   IF ok THEN [polls[p] EXCEPT !.pc = "parse", !.content = content]
                   ELSE next_message(polls[p])]
    /\ UNCHANGED <<inbox, imap_up, agent_actions, dreqs>>
    /\ UNCHANGED <<msgs, accounts, now, wvars, reqs, drafts, orphans>>
    /\ UNCHANGED pvars

\* a dispatch that makes a draft for a message classified 'ignore'
ClassifyIgnoreDrafted(p) ==
    /\ polls[p].pc = "parse"
    /\ LET parsed == parse_llm_response(polls[p].content)
       IN polls' = [polls EXCEPT ![p] =
             IF parsed.json # "object" THEN next_message(polls[p])
             ELSE [polls[p] EXCEPT
                     !.content = NoContent,
                     !.classification = parsed.classification,
                     !.confidence = parsed.confidence,
                     !.draft_reply = parsed.draft_reply,
                     !.pc = IF parsed.classification = "auto_reply" /\ parsed.draft_reply
                            THEN "reply" ELSE "draft"]]
    /\ UNCHANGED <<inbox, imap_up, agent_actions, dreqs>>
    /\ UNCHANGED <<msgs, accounts, now, wvars, reqs, drafts, orphans>>
    /\ UNCHANGED pvars

\* inbox_agent.py:173-181 and 134-137: the content is parsed and read with
\* .get, which raises on a value that is not an object and ends the work on
\* this message; else the branch is chosen
Classify(p) ==
    /\ polls[p].pc = "parse"
    /\ LET parsed == parse_llm_response(polls[p].content)
           action == parsed.classification
       IN polls' = [polls EXCEPT ![p] =
             IF parsed.json # "object" THEN next_message(polls[p])
             ELSE [polls[p] EXCEPT
                     !.content = NoContent,
                     !.classification = parsed.classification,
                     !.confidence = parsed.confidence,
                     !.draft_reply = parsed.draft_reply,
                     !.pc = CASE action = "auto_reply" /\ parsed.draft_reply -> "reply"
                              [] action = "draft_for_review" /\ parsed.draft_reply -> "draft"
                              [] action = "escalate" -> "draft"
                              [] action = "ignore" -> "seen"
                              [] OTHER -> "record"]]
    /\ UNCHANGED <<inbox, imap_up, agent_actions, dreqs>>
    /\ UNCHANGED <<msgs, accounts, now, wvars, reqs, drafts, orphans>>
    /\ UNCHANGED pvars

\* inbox_agent.py:183-186 and 321-341: _send_reply returns the id of the
\* submission, or None after any exception
SendReply(p, reply) ==
    /\ polls[p].pc = "reply"
    /\ LET r == send_message(build_mime_message_id, reply)
       IN polls' = [polls EXCEPT ![p].pc = "seen",
                                 ![p].outbound_message_id =
                                     IF r.kind = "ok" THEN r.message_id ELSE None]
    /\ UNCHANGED <<inbox, imap_up, agent_actions, dreqs>>
    /\ UNCHANGED <<msgs, accounts, now, wvars, reqs, drafts, orphans>>
    /\ UNCHANGED pvars

\* inbox_agent.py:189-205 and 343-409: the review draft carries the reply,
\* the escalation draft has no body
CreateDraft(p) ==
    /\ polls[p].pc = "draft"
    /\ Len(drafts) < MaxDrafts
    /\ drafts' = Append(drafts,
          DraftRow(IF polls[p].classification = "escalate" THEN None ELSE "text",
                   "inbox-agent", polls[p].classification, polls[p].confidence,
                   inbox[polls[p].uid].message_id))
    /\ polls' = [polls EXCEPT ![p].pc = "seen"]
    /\ UNCHANGED <<inbox, imap_up, agent_actions, dreqs>>
    /\ UNCHANGED <<msgs, accounts, now, wvars, reqs, orphans>>
    /\ UNCHANGED pvars

\* inbox_agent.py:411-415: a failure of the STORE is logged and dropped
MarkSeen(p) ==
    /\ polls[p].pc = "seen"
    /\ inbox' = IF imap_up THEN [inbox EXCEPT ![polls[p].uid].seen = TRUE]
                ELSE inbox
    /\ polls' = [polls EXCEPT ![p].pc = "record"]
    /\ UNCHANGED <<imap_up, agent_actions, dreqs>>
    /\ UNCHANGED <<msgs, accounts, now, wvars, reqs, drafts, orphans>>
    /\ UNCHANGED pvars

\* inbox_agent.py:417-442 with db.py:50: the INSERT fails on a key that is
\* journaled already, and the exception ends the work on this message
RecordAction(p) ==
    /\ polls[p].pc = "record"
    /\ agent_actions' =
          IF Key(polls[p].uid) \in Journaled THEN agent_actions
          ELSE agent_actions \cup
                 {[inbound_message_id |-> Key(polls[p].uid),
                   classification |-> polls[p].classification,
                   confidence |-> polls[p].confidence,
                   action |-> polls[p].classification,
                   outbound_message_id |-> polls[p].outbound_message_id]}
    /\ polls' = [polls EXCEPT ![p] = next_message(polls[p])]
    /\ UNCHANGED <<inbox, imap_up, dreqs>>
    /\ UNCHANGED <<msgs, accounts, now, wvars, reqs, drafts, orphans>>
    /\ UNCHANGED pvars

\* a mail arrives in the folder, with or without a Message-ID header
DeliverUpTo(has_id, n) ==
    /\ Len(inbox) < n
    /\ inbox' = Append(inbox, [message_id |-> IF has_id THEN Len(inbox) + 1 ELSE 0,
                               seen |-> FALSE])
    /\ UNCHANGED <<imap_up, agent_actions, polls, dreqs>>
    /\ UNCHANGED <<msgs, accounts, now, wvars, reqs, drafts, orphans>>
    /\ UNCHANGED pvars

Deliver(has_id) == DeliverUpTo(has_id, MaxInbound)

\* the IMAP server goes away or comes back
ImapFlip ==
    /\ imap_up' = ~imap_up
    /\ UNCHANGED <<inbox, agent_actions, polls, dreqs>>
    /\ UNCHANGED <<msgs, accounts, now, wvars, reqs, drafts, orphans>>
    /\ UNCHANGED pvars

\* the process is stopped or dies and is started again (main.py:39-47): the
\* polls under way are gone, the tables and the folder stay
AgentRestart ==
    /\ \E p \in DOMAIN polls : polls[p].pc # "idle"
    /\ polls' = [p \in DOMAIN polls |-> NoPoll]
    /\ UNCHANGED <<inbox, imap_up, agent_actions, dreqs>>
    /\ UNCHANGED <<msgs, accounts, now, wvars, reqs, drafts, orphans>>
    /\ UNCHANGED pvars

\* ------------------------------------------------- discovery (discovery.py)
\* A domain or a host name is the sequence of its labels; an address is the
\* sequence of its parts between '@' signs.
ExampleCom == <<"example", "com">>
GoogleCom == <<"google", "com">>
GmailCom == <<"gmail", "com">>

Emails ==
    { <<<<"notanemail">>>>,
      <<<<"user">>, ExampleCom>>,
      <<<<"User">>, <<"GMAIL", "com">>>> }

\* str.lower on the labels in use
lower(s) ==
    [i \in DOMAIN s |-> CASE s[i] = "GMAIL" -> "gmail"
                          [] s[i] = "User" -> "user"
                          [] OTHER -> s[i]]

MX_ALIASES(mx_base) ==
    CASE mx_base = GoogleCom -> <<GmailCom>>
      [] mx_base = <<"outlook", "com">> -> <<<<"office365", "com">>>>
      [] mx_base = <<"microsoft", "com">> -> <<<<"office365", "com">>>>
      [] OTHER -> <<>>

Range(s) == {s[i] : i \in DOMAIN s}

\* what a candidate source hands to its caller: an exception, or its lists
Raised == [raised |-> TRUE, smtp |-> <<>>, imap |-> <<>>, mx_bases |-> <<>>]
Result(smtp, imap, mx_bases) ==
    [raised |-> FALSE, smtp |-> smtp, imap |-> imap, mx_bases |-> mx_bases]

\* _discover_srv: no SRV record, or one for submission and one for imaps
discover_srv(domain) ==
    { Raised,
      Result(<<>>, <<>>, <<>>),
      Result(<< <<<<"mail">> \o domain, 587, 0, "srv">> >>,
             << <<<<"imap">> \o domain, 993, 0, "srv">> >>, <<>>) }

\* _discover_autoconfig: no document, or one naming a server of each kind
discover_autoconfig(domain) ==
    { Raised,
      Result(<<>>, <<>>, <<>>),
      Result(<< <<<<"smtp">> \o domain, 465, 1, "autoconfig">> >>,
             << <<<<"imap">> \o domain, 993, 1, "autoconfig">> >>, <<>>) }

\* the MX answers of the resolver: the exchange hosts, in order
MxRecords(domain) ==
    LET own == <<"mx">> \o domain
        google == <<"aspmx", "l", "google", "com">>
    IN  { <<>>, <<own>>, <<google>>, <<own, google>>, <<<<"localhost">>>> }

RECURSIVE mx_lookup(_)
mx_lookup(answers) ==
    IF answers = <<>> THEN Result(<<>>, <<>>, <<>>)
    ELSE LET r == mx_lookup(SubSeq(answers, 1, Len(answers) - 1))
             parts == lower(answers[Len(answers)])
             mx_base == SubSeq(parts, Len(parts) - 1, Len(parts))
         IN  IF Len(parts) >= 2
             THEN Result(r.smtp \o << <<<<"smtp">> \o mx_base, 465, 2, "mx">>,
                                      <<<<"smtp">> \o mx_base, 587, 2, "mx">>,
                                      <<<<"mail">> \o mx_base, 465, 2, "mx">>,
                                      <<<<"mail">> \o mx_base, 587, 2, "mx">> >>,
                         r.imap \o << <<<<"imap">> \o mx_base, 993, 2, "mx">>,
                                      <<<<"mail">> \o mx_base, 993, 2, "mx">> >>,
                         Append(r.mx_bases, mx_base))
             ELSE r

discover_mx(domain) ==
    {Raised} \cup {mx_lookup(answers) : answers \in MxRecords(domain)}

common_candidates(domain) ==
    Result(<< <<<<"smtp">> \o domain, 465, 3, "common">>,
              <<<<"smtp">> \o domain, 587, 3, "common">>,
              <<<<"mail">> \o domain, 465, 3, "common">>,
              <<<<"mail">> \o domain, 587, 3, "common">> >>,
           << <<<<"imap">> \o domain, 993, 3, "common">>,
              <<<<"mail">> \o domain, 993, 3, "common">> >>, <<>>)

\* the set alias_domains (discovery.py:47-54, 298-303)
alias_expansion(mx_bases, domain) ==
    UNION {{b} \cup Range(MX_ALIASES(b)) : b \in mx_bases} \ {domain}

\* a set with an order of iteration
Orders(S) ==
    {s \in [1..Cardinality(S) -> S] : Range(s) = S}

RECURSIVE alias_candidates(_)
alias_candidates(aliases) ==
    IF aliases = <<>> THEN Result(<<>>, <<>>, <<>>)
    ELSE LET r == alias_candidates(Tail(aliases))
             alias == Head(aliases)
         IN  Result(<< <<<<"smtp">> \o alias, 465, 2, "mx">>,
                       <<<<"smtp">> \o alias, 587, 2, "mx">> >> \o r.smtp,
                    << <<<<"imap">> \o alias, 993, 2, "mx">> >> \o r.imap,
                    <<>>)

\* the seen dictionary of _probe_best after the first n candidates, as the
\* list of its values in insertion order
RECURSIVE seen(_, _)
seen(candidates, n) ==
    IF n = 0 THEN <<>>
    ELSE LET s == seen(candidates, n - 1)
             c == candidates[n]
             at == {i \in DOMAIN s : s[i][1] = c[1] /\ s[i][2] = c[2]}
         IN  IF at = {} THEN Append(s, c)
             ELSE LET i == CHOOSE i \in at : TRUE
                  IN  IF c[3] < s[i][3] THEN [s EXCEPT ![i] = c] ELSE s

\* a server that accepts connections on the ports of the hosts of the reachable
\* domains whose first label is a reachable one
Connects(c, reach) ==
    /\ c[1][1] \in reach.first
    /\ Tail(c[1]) \in reach.domains

Reachability(domains) ==
    [first : SUBSET {"smtp", "mail", "imap"}, domains : SUBSET domains]

\* a _probe_best that returns the first candidate that connects
probe_first(candidates, reach) ==
    LET unique == seen(candidates, Len(candidates))
        Up(c) == Connects(c, reach)
        successes == SelectSeq(unique, Up)
    IN  IF successes = <<>> THEN <<>>
        ELSE <<successes[1][1], successes[1][2], successes[1][4]>>

\* _probe_best: <<host, port, source>>, or <<>> for None
probe_best(candidates, reach) ==
    LET unique == seen(candidates, Len(candidates))
        Up(c) == Connects(c, reach)
        successes == SelectSeq(unique, Up)
    IN  IF successes = <<>> THEN <<>>
        ELSE LET first == CHOOSE i \in DOMAIN successes :
                     /\ \A j \in DOMAIN successes :
                            successes[i][3] <= successes[j][3]
                     /\ \A j \in 1..(i - 1) :
                            successes[j][3] > successes[i][3]
                 best == successes[first]
             IN  <<best[1], best[2], best[4]>>

\* the dictionary a discovery answers with; an absent key is empty
Response(error, domain, smtp, imap) ==
    [error |-> error, domain |-> domain, smtp |-> smtp, imap |-> imap]

NoResponse == Response("", <<>>, <<>>, <<>>)

\* _sse_event
Phase(name) == [event |-> "phase", name |-> name, data |-> NoResponse]
Complete(response) == [event |-> "complete", name |-> "", data |-> response]

Discovery(variant, pc, email, domain, smtp, imap, mx_bases, aliases, events, response) ==
    [variant |-> variant, pc |-> pc, email |-> email, domain |-> domain,
     smtp_candidates |-> smtp, imap_candidates |-> imap,
     mx_bases |-> mx_bases, alias_domains |-> aliases,
     events |-> events, response |-> response]

NoDiscovery ==
    Discovery("none", "idle", <<>>, <<>>, <<>>, <<>>, {}, <<>>, <<>>, NoResponse)

\* `if alias_domains:` (discovery.py:56, 305)
HasAliases(aliases) == aliases # <<>>

DiscUnchanged ==
    /\ UNCHANGED <<msgs, accounts, now, wvars, reqs, drafts, orphans, rest>>
    /\ UNCHANGED <<conns, lists, idle, credential_version, sem, closing,
                   callers, mono, cvars>>

\* the lists after the results of a gather with return_exceptions
RECURSIVE extend(_, _)
extend(lists3, results) ==
    IF results = <<>> THEN lists3
    ELSE LET r == Head(results)
         IN  extend(IF r.raised THEN lists3
                    ELSE Result(lists3.smtp \o r.smtp, lists3.imap \o r.imap,
                                lists3.mx_bases \o r.mx_bases),
                    Tail(results))

\* discovery.py:317-324 and 68-76: the candidates named after the aliases and
\* the common ones
with_fallbacks(smtp, imap, aliases, domain) ==
    LET a == alias_candidates(aliases)
        c == common_candidates(domain)
    IN  Result(smtp \o a.smtp \o c.smtp, imap \o a.imap \o c.imap, <<>>)

\* discovery.py:84-92 and 333-341
response_of(domain, smtp_result, imap_result) ==
    Response("", domain, smtp_result, imap_result)

\* ---- discover_stream (discovery.py:266-343): each action runs the generator
\*      from one yield to the next
discover_stream(email) ==
    /\ disc.pc \in {"idle", "done", "raised"}
    /\ disc' =
         IF Len(email) < 2
         THEN Discovery("stream", "done", email, <<>>, <<>>, <<>>, {}, <<>>,
                        <<Complete(Response("Invalid email address",
                                            <<>>, <<>>, <<>>))>>,
                        NoResponse)
         ELSE Discovery("stream", "dns", email, lower(email[2]), <<>>, <<>>, {}, <<>>,
                        <<Phase("dns")>>, NoResponse)
    /\ DiscUnchanged

StreamDns(srv, mx) ==
    /\ disc.variant = "stream" /\ disc.pc = "dns"
    /\ LET got == extend(Result(<<>>, <<>>, <<>>), <<srv, mx>>)
       IN  disc' = [disc EXCEPT !.pc = "autoconfig",
                                !.smtp_candidates = got.smtp,
                                !.imap_candidates = got.imap,
                                !.mx_bases = Range(got.mx_bases),
                                !.events = Append(@, Phase("autoconfig"))]
    /\ DiscUnchanged

\* line 293 awaits the source itself: what it raises leaves the generator
StreamAutoconfig(autoconfig_result, aliases) ==
    /\ disc.variant = "stream" /\ disc.pc = "autoconfig"
    /\ aliases \in Orders(alias_expansion(disc.mx_bases, disc.domain))
    /\ IF autoconfig_result.raised
       THEN disc' = [disc EXCEPT !.pc = "raised"]
       ELSE LET smtp == disc.smtp_candidates \o autoconfig_result.smtp
                imap == disc.imap_candidates \o autoconfig_result.imap
                all == with_fallbacks(smtp, imap, aliases, disc.domain)
            IN  disc' =
                  IF HasAliases(aliases)
                  THEN [disc EXCEPT !.pc = "aliases",
                                    !.smtp_candidates = smtp,
                                    !.imap_candidates = imap,
                                    !.alias_domains = aliases,
                                    !.events = Append(@, Phase("aliases"))]
                  ELSE [disc EXCEPT !.pc = "probing",
                                    !.smtp_candidates = all.smtp,
                                    !.imap_candidates = all.imap,
                                    !.events = Append(@, Phase("probing"))]
    /\ DiscUnchanged

StreamAliases(alias_results) ==
    /\ disc.variant = "stream" /\ disc.pc = "aliases"
    /\ LET got == extend(Result(disc.smtp_candidates, disc.imap_candidates, <<>>),
                         alias_results)
           all == with_fallbacks(got.smtp, got.imap, disc.alias_domains,
                                 disc.domain)
       IN  disc' = [disc EXCEPT !.pc = "probing",
                                !.smtp_candidates = all.smtp,
                                !.imap_candidates = all.imap,
                                !.events = Append(@, Phase("probing"))]
    /\ DiscUnchanged

StreamProbe(reach) ==
    /\ disc.variant = "stream" /\ disc.pc = "probing"
    /\ LET response == response_of(disc.domain,
                                   probe_best(disc.smtp_candidates, reach),
                                   probe_best(disc.imap_candidates, reach))
       IN  disc' = [disc EXCEPT !.pc = "done",
                                !.events = Append(@, Complete(response))]
    /\ DiscUnchanged

\* ---- discover (discovery.py:20-94)
discover(email) ==
    /\ disc.pc \in {"idle", "done", "raised"}
    /\ disc' =
         IF Len(email) < 2
         THEN Discovery("batch", "done", email, <<>>, <<>>, <<>>, {}, <<>>, <<>>,
                        Response("Invalid email address", <<>>, <<>>, <<>>))
         ELSE Discovery("batch", "gather", email, lower(email[2]), <<>>, <<>>,
                        {}, <<>>, <<>>, NoResponse)
    /\ DiscUnchanged

BatchGather(srv, autoconfig, mx, aliases) ==
    /\ disc.variant = "batch" /\ disc.pc = "gather"
    /\ LET got == extend(Result(<<>>, <<>>, <<>>), <<srv, autoconfig, mx>>)
           all == with_fallbacks(got.smtp, got.imap, aliases, disc.domain)
       IN  /\ aliases \in Orders(alias_expansion(Range(got.mx_bases),
                                                 disc.domain))
           /\ disc' =
                IF HasAliases(aliases)
                THEN [disc EXCEPT !.pc = "aliases",
                                  !.smtp_candidates = got.smtp,
                                  !.imap_candidates = got.imap,
                                  !.mx_bases = Range(got.mx_bases),
                                  !.alias_domains = aliases]
                ELSE [disc EXCEPT !.pc = "probing",
                                  !.smtp_candidates = all.smtp,
                                  !.imap_candidates = all.imap,
                                  !.mx_bases = Range(got.mx_bases)]
    /\ DiscUnchanged

BatchAliases(alias_results) ==
    /\ disc.variant = "batch" /\ disc.pc = "aliases"
    /\ LET got == extend(Result(disc.smtp_candidates, disc.imap_candidates, <<>>),
                         alias_results)
           all == with_fallbacks(got.smtp, got.imap, disc.alias_domains,
                                 disc.domain)
       IN  disc' = [disc EXCEPT !.pc = "probing",
                                !.smtp_candidates = all.smtp,
                                !.imap_candidates = all.imap]
    /\ DiscUnchanged

BatchProbe(reach) ==
    /\ disc.variant = "batch" /\ disc.pc = "probing"
    /\ disc' = [disc EXCEPT !.pc = "done",
                            !.response =
                                response_of(disc.domain,
                                            probe_best(disc.smtp_candidates, reach),
                                            probe_best(disc.imap_candidates, reach))]
    /\ DiscUnchanged

\* the answers of the autoconfig fetches for the aliases, in their order
AliasResults(aliases) ==
    {r \in [DOMAIN aliases -> UNION {discover_autoconfig(aliases[i]) :
                                         i \in DOMAIN aliases}] :
        \A i \in DOMAIN aliases : r[i] \in discover_autoconfig(aliases[i])}

\* discovery.py:27-41 and 280-295: the lists of a variant after the three
\* sources of the address's own domain. The batch variant gathers srv,
\* autoconfig, mx with return_exceptions; the streaming one gathers srv, mx
\* and then takes the lists of autoconfig, which has not raised
gathered(variant, srv, autoconfig, mx) ==
    IF variant = "batch"
    THEN extend(Result(<<>>, <<>>, <<>>), <<srv, autoconfig, mx>>)
    ELSE LET dns == extend(Result(<<>>, <<>>, <<>>), <<srv, mx>>)
         IN  Result(dns.smtp \o autoconfig.smtp, dns.imap \o autoconfig.imap,
                    dns.mx_bases)

\* discovery.py:20-94 and 266-343: what a variant answers for a domain, from
\* the answers of the sources and of the probes: the dictionary discover
\* returns, or the payload of the complete event of discover_stream;
\* NoResponse when the stream ends without that event
answer(variant, domain, srv, autoconfig, mx, aliases, alias_results, reach) ==
    IF variant = "stream" /\ autoconfig.raised THEN NoResponse
    ELSE LET own == gathered(variant, srv, autoconfig, mx)
             got == extend(Result(own.smtp, own.imap, <<>>), alias_results)
             all == with_fallbacks(got.smtp, got.imap, aliases, domain)
         IN  response_of(domain, probe_best(all.smtp, reach),
                         probe_best(all.imap, reach))

\* the domains a probe can reach
ProbedDomains == {ExampleCom, GoogleCom, GmailCom}

Init ==
    /\ msgs = <<>>
    /\ accounts = {Account}
    /\ now = 0
    /\ stopping = FALSE
    /\ work_available = FALSE
    /\ in_flight = {}
    /\ semaphore = WORKER_CONCURRENCY
    /\ wpc = "init"
    /\ queued = <<>>
    /\ tasks = NoTasks
    /\ waited = 0
    /\ spc = "idle"
    /\ drained = 0
    /\ reqs = <<>>
    /\ orphans = {}
    \* message_id is the id of a row of messages, 0 while it is NULL
    /\ drafts = <<DraftRow("text", None, None, 0, 0)>>
    /\ dreqs = <<>>
    /\ inbox = <<>>
    /\ imap_up = TRUE
    /\ agent_actions = {}
    /\ polls = [p \in 1..MaxPolls |-> NoPoll]
    /\ conns = <<>>
    /\ lists = <<>>
    /\ idle = 0
    /\ credential_version = 0
    /\ sem = max_connections_per_account
    /\ closing = {}
    /\ callers = EmptyBag
    /\ mono = 0
    /\ cleanup_task = "None"
    /\ closer = Closer("idle", 0, 0, 0)
    /\ sweep = Asleep(0)
    /\ disc = NoDiscovery

\* the worker, the clock and the process
WorkerNext ==
    \/ StartRecover
    \/ StartLoop
    \/ PollQuery
    \/ PollWake
    \/ PollSpawn
    \/ GatherDone
    \/ \E id \in DOMAIN tasks : Claim(id)
    \/ \E id \in DOMAIN tasks : Unclaimed(id)
    \/ \E id \in DOMAIN tasks : LoadAccount(id)
    \/ \E id \in DOMAIN tasks, reply \in SmtpReplies : Send(id, reply)
    \/ \E id \in DOMAIN tasks : MarkSent(id)
    \/ \E id \in DOMAIN tasks : HandleSendError(id)
    \/ \E id \in DOMAIN tasks : MarkFailed(id)
    \/ Tick
    \/ Restart

\* the worker with POST /send, wait = false and wait = true
Next ==
    \/ WorkerNext
    \/ \E wait \in BOOLEAN : SendEmailCreate(wait)
    \/ \E id \in DOMAIN reqs : SendEmailNotify(id)
    \/ \E id \in DOMAIN reqs, reply \in SmtpReplies : SendEmailFinish(id, reply)

Spec == Init /\ [][Next]_vars

\* the row of the account is gone from the accounts table while rows of
\* messages still name it: get_account_with_credentials (store.py:98-103)
\* returns None from then on
AccountGone ==
    /\ Account \in accounts
    /\ accounts' = accounts \ {Account}
    /\ UNCHANGED <<msgs, now, wvars, reqs, drafts, orphans>>
    /\ UNCHANGED <<pvars, rest>>

\* the worker with POST /send, wait = false, and an account that may vanish;
\* no row is touched by another sender here, so that every claim succeeds
AccountNext ==
    \/ StartRecover
    \/ StartLoop
    \/ PollQuery
    \/ PollWake
    \/ PollSpawn
    \/ GatherDone
    \/ \E id \in DOMAIN tasks : Claim(id)
    \/ \E id \in DOMAIN tasks : LoadAccount(id)
    \/ \E id \in DOMAIN tasks, reply \in SmtpReplies : Send(id, reply)
    \/ \E id \in DOMAIN tasks : MarkSent(id)
    \/ \E id \in DOMAIN tasks : HandleSendError(id)
    \/ \E id \in DOMAIN tasks : MarkFailed(id)
    \/ Tick
    \/ Restart
    \/ SendEmailCreate(FALSE)
    \/ \E id \in DOMAIN reqs : SendEmailNotify(id)
    \/ AccountGone

AccountSpec == Init /\ [][AccountNext]_vars

\* the worker with the two handlers that submit on their own: POST /send
\* with wait = true and POST .../drafts/{id}/send
SendNext ==
    \/ WorkerNext
    \/ SendEmailCreate(TRUE)
    \/ \E id \in DOMAIN reqs, reply \in SmtpReplies : SendEmailFinish(id, reply)
    \/ \E d \in DOMAIN drafts : SendDraftCreate(d, None)
    \/ \E id \in DOMAIN reqs, reply \in SmtpReplies : SendDraftFinish(id, reply)

SendSpec == Init /\ [][SendNext]_vars

\* POST /send with wait = false, for an account with a cap, and the worker:
\* every row is the worker's alone, so that no claim of it is lost
RateNext ==
    \/ StartRecover
    \/ StartLoop
    \/ PollQuery
    \/ PollWake
    \/ PollSpawn
    \/ GatherDone
    \/ \E id \in DOMAIN tasks : Claim(id)
    \/ \E id \in DOMAIN tasks : LoadAccount(id)
    \/ \E id \in DOMAIN tasks, reply \in SmtpReplies : Send(id, reply)
    \/ \E id \in DOMAIN tasks : MarkSent(id)
    \/ \E id \in DOMAIN tasks : HandleSendError(id)
    \/ \E id \in DOMAIN tasks : MarkFailed(id)
    \/ Tick
    \/ Restart
    \/ SendEmailAdmit(FALSE, MaxSends)
    \/ \E id \in DOMAIN reqs : SendEmailNotify(id)

RateSpec == Init /\ [][RateNext]_vars

\* the worker with POST /send while the process stays up and time goes on:
\* the event loop runs every coroutine that can run
LoopStep ==
    \/ StartRecover
    \/ StartLoop
    \/ PollQuery
    \/ PollWake
    \/ PollSpawn
    \/ GatherDone

TaskStep(id) ==
    \/ Claim(id)
    \/ Unclaimed(id)
    \/ LoadAccount(id)
    \/ \E reply \in SmtpReplies : Send(id, reply)
    \/ MarkSent(id)
    \/ HandleSendError(id)
    \/ MarkFailed(id)

LiveNext ==
    \/ LoopStep
    \/ \E id \in DOMAIN tasks : TaskStep(id)
    \/ TimePasses
    \/ \E wait \in BOOLEAN : SendEmailCreate(wait)
    \/ \E id \in DOMAIN reqs : SendEmailNotify(id)
    \/ \E id \in DOMAIN reqs, reply \in SmtpReplies : SendEmailFinish(id, reply)

LiveSpec ==
    /\ Init /\ [][LiveNext]_vars
    /\ WF_vars(LoopStep)
    /\ \A id \in 1..MaxMsgs : WF_vars(TaskStep(id))
    /\ WF_vars(TimePasses)

\* the worker, POST /send, and the shutdown of the application (main.py:53)
StopNext ==
    \/ Next
    \/ PollExit
    \/ StopBegin
    \/ StopDrain

StopSpec == Init /\ [][StopNext]_vars

\* the connection pool with its callers, invalidate_account and the clock
PoolNext ==
    \/ Acquire
    \/ \E me \in BagToSet(callers) : CloseCandidate(me)
    \/ \E me \in BagToSet(callers), alive \in BOOLEAN : Noop(me, alive)
    \/ \E me \in BagToSet(callers), ok \in BOOLEAN : Connect(me, ok)
    \/ \E me \in BagToSet(callers), ok \in BOOLEAN : Login(me, ok)
    \/ \E me \in BagToSet(callers) : Release(me)
    \/ \E me \in BagToSet(callers) : Raise(me)
    \/ \E me \in BagToSet(callers) : CloseLease(me)
    \/ invalidate_account
    \/ \E k \in closing : CloseStale(k)
    \/ \E t \in Instants : Elapse(t)

PoolSpec == Init /\ [][PoolNext]_vars

\* the pool from its start (main.py:35) to and after its shutdown (main.py:49)
CloseNext ==
    \/ PoolNext
    \/ start_cleanup_task
    \/ CloseAllBegin
    \/ CloseAllCancel
    \/ CleanupCancelled
    \/ CloseAllPop
    \/ CloseAllQuit

CloseSpec == Init /\ [][CloseNext]_vars

\* the pool with its cleanup task running
SweepNext ==
    \/ PoolNext
    \/ start_cleanup_task
    \/ EvictStale
    \/ EvictQuit

SweepSpec == Init /\ [][SweepNext]_vars

\* the requests on a draft, in any number up to the bound and any interleaving
DraftNext ==
    \/ \E kind \in DraftKinds, d \in DOMAIN drafts, value \in 0..MaxContent :
          DraftBegin(kind, d, value)
    \/ \E id \in DOMAIN dreqs : UpdateRead(id)
    \/ \E id \in DOMAIN dreqs : UpdateWrite(id)
    \/ \E id \in DOMAIN dreqs : DiscardDraft(id)
    \/ \E id \in DOMAIN dreqs : DraftCreate(id)
    \/ \E id \in DOMAIN dreqs, reply \in SmtpReplies : DraftSend(id, reply)
    \/ \E id \in DOMAIN dreqs : DraftMarkSent(id)

DraftSpec == Init /\ [][DraftNext]_vars

\* requests to send or approve one draft, any number of them under way at
\* once (POST .../send and POST .../approve, main.py:428-442 and 455-523)
ResendNext ==
    \/ \E kind \in Sending, d \in DOMAIN drafts : DraftAdmit(kind, d, 0, MaxSends)
    \/ \E id \in DOMAIN dreqs : UpdateRead(id)
    \/ \E id \in DOMAIN dreqs : UpdateWrite(id)
    \/ \E id \in DOMAIN dreqs : DraftCreate(id)
    \/ \E id \in DOMAIN dreqs, reply \in SmtpReplies : DraftSend(id, reply)
    \/ \E id \in DOMAIN dreqs : DraftMarkSent(id)

ResendSpec == Init /\ [][ResendNext]_vars

\* the inbox agent with its poll loop alone, and the mailbox
AgentNext ==
    \/ \E p \in {Loop} : PollBegin(p)
    \/ \E p \in {Loop} : AlreadyProcessed(p)
    \/ \E p \in {Loop}, ok \in BOOLEAN, content \in LlmContents :
          ChatCompletion(p, ok, content)
    \/ \E p \in {Loop} : Classify(p)
    \/ \E p \in {Loop}, reply \in SmtpReplies : SendReply(p, reply)
    \/ \E p \in {Loop} : CreateDraft(p)
    \/ \E p \in {Loop} : MarkSeen(p)
    \/ \E p \in {Loop} : RecordAction(p)
    \/ \E has_id \in BOOLEAN : Deliver(has_id)
    \/ ImapFlip
    \/ AgentRestart

AgentSpec == Init /\ [][AgentNext]_vars

\* the poll loop and the polls POST /agent/poll starts (main.py:708-714), on a
\* server that answers
OverlapNext ==
    \/ \E p \in DOMAIN polls : PollBegin(p)
    \/ \E p \in DOMAIN polls : AlreadyProcessed(p)
    \/ \E p \in DOMAIN polls, ok \in BOOLEAN, content \in LlmContents :
          ChatCompletion(p, ok, content)
    \/ \E p \in DOMAIN polls : Classify(p)
    \/ \E p \in DOMAIN polls, reply \in SmtpReplies : SendReply(p, reply)
    \/ \E p \in DOMAIN polls : CreateDraft(p)
    \/ \E p \in DOMAIN polls : MarkSeen(p)
    \/ \E p \in DOMAIN polls : RecordAction(p)
    \/ \E has_id \in BOOLEAN : Deliver(has_id)

OverlapSpec == Init /\ [][OverlapNext]_vars

\* one poll of the loop over a folder with several unread messages, on a
\* store whose reads may fail
BatchNext ==
    \/ PollBegin(Loop)
    \/ AlreadyProcessed(Loop)
    \/ AlreadyProcessedRaises(Loop)
    \/ \E ok \in BOOLEAN, content \in LlmContents : ChatCompletion(Loop, ok, content)
    \/ Classify(Loop)
    \/ \E reply \in SmtpReplies : SendReply(Loop, reply)
    \/ CreateDraft(Loop)
    \/ MarkSeen(Loop)
    \/ RecordAction(Loop)
    \/ \E has_id \in BOOLEAN : DeliverUpTo(has_id, MaxBatch)

BatchSpec == Init /\ [][BatchNext]_vars

\* the two discovery endpoints (main.py:233-243), one request at a time
DiscoveryNext ==
    \/ \E email \in Emails : discover_stream(email)
    \/ \E srv \in discover_srv(disc.domain), mx \in discover_mx(disc.domain) :
          StreamDns(srv, mx)
    \/ \E r \in discover_autoconfig(disc.domain),
          aliases \in Orders(alias_expansion(disc.mx_bases, disc.domain)) :
          StreamAutoconfig(r, aliases)
    \/ \E rs \in AliasResults(disc.alias_domains) : StreamAliases(rs)
    \/ \E reach \in Reachability(ProbedDomains) : StreamProbe(reach)
    \/ \E email \in Emails : discover(email)
    \/ \E srv \in discover_srv(disc.domain),
          r \in discover_autoconfig(disc.domain),
          mx \in discover_mx(disc.domain) :
          \E aliases \in Orders(alias_expansion(
                 Range(extend(Result(<<>>, <<>>, <<>>), <<mx>>).mx_bases),
                 disc.domain)) :
             BatchGather(srv, r, mx, aliases)
    \/ \E rs \in AliasResults(disc.alias_domains) : BatchAliases(rs)
    \/ \E reach \in Reachability(ProbedDomains) : BatchProbe(reach)

DiscoverySpec == Init /\ [][DiscoveryNext]_vars

\* ------------------------------------------------------------- properties
\* steps of one _process_message task, recognised from outside
ClaimStep(id) ==
    /\ id \in DOMAIN tasks /\ tasks[id].pc = "claim"
    /\ id \in DOMAIN tasks' /\ tasks'[id].pc # "claim"

\* the task held the outcome of send_message and has returned (the process
\* was not restarted)
Returned(id, kind) ==
    /\ id \in DOMAIN tasks /\ tasks[id].pc = "result"
    /\ tasks[id].result.kind = kind
    /\ id \notin DOMAIN tasks' /\ wpc' # "init"

Failed(id, error_type) ==
    /\ Returned(id, "SmtpSendError")
    /\ tasks[id].result.error_type = error_type

Started == {"account", "send", "result", "exception", "no_account"}

\* C1: in every reachable state every row of the messages table has
\* retry_count <= MAX_RETRIES.
C1_RetryCountBounded ==
    \A i \in DOMAIN msgs : msgs[i].retry_count <= MAX_RETRIES

C1_Witness ==
    \E i \in DOMAIN msgs : /\ msgs[i].retry_count = MAX_RETRIES
                           /\ msgs[i].status = "failed"

\* C2: every row whose status is 'sent' has a message_id and a sent_at,
\* whether the worker, the synchronous send or the draft send marked it.
C2_SentHasIdAndTime ==
    \A i \in DOMAIN msgs :
        msgs[i].status = "sent" =>
            msgs[i].message_id # None /\ msgs[i].sent_at # NoTime

C2_Witness ==
    \E i \in DOMAIN msgs : msgs[i].status = "sent" /\ reqs[i].kind = "draft"

\* C3: every connection acquire hands to a caller has, when it is handed
\* out, the current credential version of the account, an age below
\* max_lifetime and an idle time below max_idle, however acquire and
\* invalidate_account interleave.
C3_HandedOutFresh ==
    [][\A r \in BagToSet(callers') :
          (r.pc = "held" /\ CopiesIn(r, callers') > CopiesIn(r, callers)) =>
              /\ conns'[r.conn].credential_version = credential_version'
              /\ mono' - conns'[r.conn].created_at < max_lifetime_seconds
              /\ mono' - conns'[r.conn].returned_at < max_idle_seconds
      ]_vars

\* C4: at most max_connections_per_account acquire scopes of the account are
\* open at once, and the semaphore has exactly the remaining slots, so that
\* an acquire at the limit waits for a release.
C4_LeasesBounded ==
    /\ Leases <= max_connections_per_account
    /\ sem = max_connections_per_account - Leases

C4_Witness ==
    /\ Leases = max_connections_per_account
    /\ Leases < NumCallers
    /\ sem = 0
    /\ \A r \in BagToSet(callers) : r.pc = "held"

\* C5: a claim succeeds exactly when the row is 'queued' and turns it to
\* 'sending', so no second claim succeeds until the row is queued again; a
\* task whose claim failed leaves the store as it is, never reaches the
\* submission and returns.
C5_ClaimExclusive ==
    [][\A id \in DOMAIN tasks :
          /\ ClaimStep(id) =>
                IF msgs[id].status = "queued"
                THEN msgs'[id].status = "sending" /\ tasks'[id].pc = "account"
                ELSE msgs' = msgs /\ tasks'[id].pc = "unclaimed"
          /\ tasks[id].pc = "unclaimed" =>
                IF id \in DOMAIN tasks' THEN tasks'[id] = tasks[id]
                ELSE msgs' = msgs
          /\ (id \in DOMAIN tasks' /\ tasks'[id].pc \in Started) =>
                \/ tasks[id].pc \in Started
                \/ tasks[id].pc = "claim" /\ msgs[id].status = "queued"
      ]_vars

C5_Witness ==
    \E id \in DOMAIN tasks : /\ tasks[id].pc = "unclaimed"
                             /\ msgs[id].status \in {"sent", "failed"}

\* C6: the recovery step of start() turns every 'sending' row to 'queued'
\* and leaves the other rows as they are; when it has completed no row is
\* 'sending'.
C6_OrphansRecovered ==
    /\ [](wpc = "recovered" => \A i \in DOMAIN msgs : msgs[i].status # "sending")
    /\ [][(wpc = "init" /\ wpc' = "recovered") =>
            /\ DOMAIN msgs' = DOMAIN msgs
            /\ \A i \in DOMAIN msgs :
                  msgs'[i] = IF msgs[i].status = "sending"
                             THEN [msgs[i] EXCEPT !.status = "queued"]
                             ELSE msgs[i]
         ]_vars

C6_Witness ==
    /\ wpc = "recovered"
    /\ orphans # {}
    /\ \A i \in orphans : msgs[i].status = "queued"

\* C7: a worker submission that fails with auth_error marks the row 'failed'
\* with the error text and changes nothing else of it: retry_count and
\* next_retry_at stay, whatever retry_count is.
C7_AuthErrorTerminal ==
    [][\A id \in DOMAIN tasks :
          Failed(id, "auth_error") =>
              msgs'[id] = [msgs[id] EXCEPT !.status = "failed",
                                           !.error = tasks[id].result.message]
      ]_vars

C7_Witness ==
    \E i \in DOMAIN msgs :
        /\ reqs[i].kind = "async"
        /\ msgs[i].status = "failed"
        /\ msgs[i].error = ErrText("SMTPAuthenticationError")
        /\ msgs[i].retry_count >= 1

\* C8: a worker submission that fails with recipient_rejected marks the row
\* 'failed' at once and schedules no retry.
C8_RecipientRejectedTerminal ==
    [][\A id \in DOMAIN tasks :
          Failed(id, "recipient_rejected") =>
              /\ msgs'[id].status = "failed"
              /\ msgs'[id].retry_count = msgs[id].retry_count
              /\ msgs'[id].next_retry_at = msgs[id].next_retry_at
      ]_vars

\* C9: a worker submission that fails with connection_error at
\* retry_count = k < MAX_RETRIES puts the row back to 'queued' with
\* retry_count = k + 1 and a next_retry_at in the future; a worker submission
\* that succeeds marks the same row 'sent' and keeps its retry_count, so one
\* failure then success ends with retry_count = 1.
C9_ConnectionErrorRetried ==
    [][\A id \in DOMAIN tasks :
          /\ (Failed(id, "connection_error") /\ msgs[id].retry_count < MAX_RETRIES) =>
                /\ msgs'[id].status = "queued"
                /\ msgs'[id].retry_count = msgs[id].retry_count + 1
                /\ msgs'[id].next_retry_at # NoTime
                /\ msgs'[id].next_retry_at > now
          /\ Returned(id, "ok") =>
                /\ Len(msgs') = Len(msgs)
                /\ msgs'[id].status = "sent"
                /\ msgs'[id].retry_count = msgs[id].retry_count
      ]_vars

C9_Witness ==
    \E i \in DOMAIN msgs :
        /\ reqs[i].kind = "async"
        /\ msgs[i].status = "sent"
        /\ msgs[i].retry_count = 1
        /\ msgs[i].error = ErrText("SMTPConnectError")

\* C10 as stated: on a connection failure the worker increments retry_count
\* and, if it is then greater than MAX_RETRIES, marks the row 'failed' with
\* "Max retries exceeded: <msg>", else puts it back to 'queued'.
C10_IncrementThenTest ==
    [][\A id \in DOMAIN tasks :
          Failed(id, "connection_error") =>
              /\ msgs'[id].retry_count = msgs[id].retry_count + 1
              /\ IF msgs'[id].retry_count > MAX_RETRIES
                 THEN /\ msgs'[id].status = "failed"
                      /\ msgs'[id].error =
                            "Max retries exceeded: " \o tasks[id].result.message
                 ELSE msgs'[id].status = "queued"
      ]_vars

\* C10 amended: on a connection failure at retry_count = k the worker marks
\* the row 'failed' with "Max retries exceeded: <msg>" when k + 1 would be
\* greater than MAX_RETRIES, leaving retry_count at k and scheduling nothing;
\* otherwise retry_count becomes k + 1 and the row is 'queued' again.
C10_TestThenIncrement ==
    [][\A id \in DOMAIN tasks :
          Failed(id, "connection_error") =>
              IF msgs[id].retry_count + 1 > MAX_RETRIES
              THEN msgs'[id] =
                      [msgs[id] EXCEPT
                          !.status = "failed",
                          !.error = "Max retries exceeded: "
                                       \o tasks[id].result.message]
              ELSE /\ msgs'[id].retry_count = msgs[id].retry_count + 1
                   /\ msgs'[id].status = "queued"
                   /\ msgs'[id].next_retry_at # NoTime
      ]_vars

C10_Witness ==
    \E i \in DOMAIN msgs :
        /\ msgs[i].status = "failed"
        /\ msgs[i].error = "Max retries exceeded: " \o ErrText("SMTPConnectError")
        /\ msgs[i].retry_count = MAX_RETRIES
        /\ msgs[i].next_retry_at # NoTime

\* C11: a connection failure of a row read with retry_count k in {0, 1, 2}
\* schedules next_retry_at exactly 30, 60 and 120 seconds after the failure,
\* which is min(30 * 2^k, 600); the delay formula never gives more than 600
\* and gives 600 from k = 5 on.
C11_BackoffLaw ==
    [][/\ \A k \in 0..MaxK :
            /\ delay(k) <= 600
            /\ k >= 5 => delay(k) = 600
       /\ \A id \in DOMAIN tasks :
            (Failed(id, "connection_error") /\ tasks[id].row.retry_count < MAX_RETRIES) =>
                LET k == tasks[id].row.retry_count
                    d == msgs'[id].next_retry_at - now
                IN /\ k = 0 => d = 30
                   /\ k = 1 => d = 60
                   /\ k = 2 => d = 120
      ]_vars

C11_Witness ==
    \E i \in DOMAIN msgs :
        /\ msgs[i].status = "queued"
        /\ msgs[i].retry_count = MAX_RETRIES
        /\ msgs[i].next_retry_at = 2 * TickStep + 120

\* the connections in the idle list of the account
Idle == IF idle = 0 THEN {} ELSE Elements(lists[idle])

\* C12: invalidate_account raises the credential version of the account by
\* exactly 1, leaves the account without an idle list, and schedules a close
\* for every connection that was in it.
C12_InvalidateAccount ==
    [][credential_version' # credential_version =>
          /\ credential_version' = credential_version + 1
          /\ idle' = 0
          /\ closing' = closing \cup Idle
      ]_vars

C12_Witness ==
    /\ credential_version = 1
    /\ idle = 0
    /\ closing # {}
    /\ \A k \in closing : conns[k].open

\* C13: a lease whose connection has a stale credential version when it is
\* released (invalidate_account ran during the lease) closes the connection
\* and does not put it on the idle list.
C13_StaleLeaseClosed ==
    [][\A r \in BagToSet(callers) :
          (/\ r.pc = "held"
           /\ CopiesIn(r, callers') < CopiesIn(r, callers)
           /\ sem' = sem + 1
           /\ conns[r.conn].credential_version # credential_version) =>
              /\ ~conns'[r.conn].open
              /\ idle' # 0 => r.conn \notin Elements(lists'[idle'])
      ]_vars

\* C14: when the body of a lease has raised, the connection is closed and is
\* on no list when the scope ends; every coroutine that leaves acquire (body
\* failure, connect or login failure, normal exit) gives its slot back, so
\* with no lease open all slots are free.
C14_RaiseClosesAndReleases ==
    /\ [](\A r \in BagToSet(callers) :
             r.pc = "closing" =>
                 \A l \in DOMAIN lists : r.conn \notin Elements(lists[l]))
    /\ [](Leases = 0 => sem = max_connections_per_account)
    /\ [][/\ Leases' < Leases => sem' = sem + 1
          /\ \A r \in BagToSet(callers) :
                (r.pc = "closing" /\ CopiesIn(r, callers') < CopiesIn(r, callers)) =>
                    /\ ~conns'[r.conn].open
                    /\ r.conn \notin Idle'
         ]_vars

C14_Witness ==
    /\ Len(conns) = 1
    /\ ~conns[1].open
    /\ lists = <<>>
    /\ Leases = 0
    /\ sem = max_connections_per_account

\* C15: once close_all has returned the pool is terminal: the cleanup task is
\* not running, no caller gets into acquire to open or reuse a connection,
\* and no connection is put on the idle list.
C15_PoolTerminal ==
    /\ [](closer.pc = "done" => cleanup_task # "running")
    /\ [][closer.pc = "done" =>
             /\ Leases' <= Leases
             /\ Idle' \subseteq Idle]_vars

\* C16: the status of a draft changes only from draft to discarded or from
\* draft to sent, whatever send, approve, discard and reject requests run and
\* however they interleave.
C16_DraftTransitions ==
    [][\A d \in DOMAIN drafts :
          drafts'[d].status # drafts[d].status =>
              /\ drafts[d].status = "draft"
              /\ drafts'[d].status \in {"discarded", "sent"}]_vars

\* C17: a draft that is no longer 'draft' keeps its content and its metadata,
\* whatever update runs on it, one racing with the discard or send included.
C17_ContentFrozen ==
    [][\A d \in DOMAIN drafts :
          drafts[d].status # "draft" =>
              /\ drafts'[d].content = drafts[d].content
              /\ Metadata(drafts'[d]) = Metadata(drafts[d])]_vars

\* C18: a message that had its journal row (keyed by its Message-ID, or by
\* uid:<uid> without one) when a poll fetched it is skipped by that poll: no
\* LLM call, reply, draft or journal row is made for it; and no two rows of
\* agent_actions have the same inbound identifier.
C18_ProcessedOnce ==
    /\ \A r1, r2 \in agent_actions :
          r1.inbound_message_id = r2.inbound_message_id => r1 = r2
    /\ \A p \in DOMAIN polls :
          polls[p].pc \in {"llm", "parse", "reply", "draft", "seen", "record"} =>
              polls[p].uid \notin polls[p].known

\* C19: a content of the LLM that is not the JSON object asked for, fences
\* stripped, is taken as 'escalate' with confidence 0; the escalation draft
\* has no body, the inbound is marked seen, the journaled action is
\* 'escalate'.
C19_UnparseableEscalates ==
    [][\A p \in DOMAIN polls :
          /\ (Classify(p) /\ polls[p].content.body.json # "object") =>
                /\ polls'[p].pc = "draft"
                /\ polls'[p].uid = polls[p].uid
                /\ polls'[p].classification = "escalate"
                /\ polls'[p].confidence = 0
          /\ (CreateDraft(p) /\ polls[p].classification = "escalate") =>
                /\ drafts'[Len(drafts')].text_content = None
                /\ drafts'[Len(drafts')].classification = "escalate"
                /\ drafts'[Len(drafts')].confidence = polls[p].confidence
                /\ polls'[p].pc = "seen"
          /\ (MarkSeen(p) /\ polls[p].classification = "escalate" /\ imap_up) =>
                /\ inbox'[polls[p].uid].seen
                /\ polls'[p].pc = "record"
          /\ (RecordAction(p) /\ polls[p].classification = "escalate"
                 /\ Key(polls[p].uid) \notin Journaled) =>
                \E row \in agent_actions' :
                    /\ row.inbound_message_id = Key(polls[p].uid)
                    /\ row.action = "escalate"
                    /\ row.confidence = polls[p].confidence]_vars

\* C20: when the submission of an auto-reply failed, the inbound message is
\* not marked seen on that path.
C20_FailedReplyNotSeen ==
    [][\A p \in DOMAIN polls :
          (MarkSeen(p) /\ polls[p].classification = "auto_reply"
             /\ polls[p].outbound_message_id = None) =>
              inbox'[polls[p].uid].seen = inbox[polls[p].uid].seen]_vars

\* C21: the agent does what the classification says. auto_reply with a draft:
\* one submission of the reply, then mark seen. draft_for_review with a
\* draft: one draft with the reply, then mark seen. escalate: one draft with
\* no body, then mark seen. ignore: mark seen only. Then one row is journaled,
\* its action the classification. Nothing else makes a draft, marks a message
\* seen or journals a row.
C21_Dispatch ==
    [][/\ \A p \in DOMAIN polls :
            LET c == polls[p].content.body
            IN /\ (Classify(p) /\ c.json = "object") =>
                     polls'[p].pc =
                        CASE c.classification = "auto_reply" /\ c.draft_reply -> "reply"
                          [] c.classification = "draft_for_review" /\ c.draft_reply -> "draft"
                          [] c.classification = "escalate" -> "draft"
                          [] c.classification = "ignore" -> "seen"
                          [] OTHER -> "record"
               /\ (\E reply \in SmtpReplies : SendReply(p, reply)) =>
                     /\ polls[p].classification = "auto_reply"
                     /\ polls'[p].pc = "seen"
       /\ drafts' # drafts =>
            \E p \in DOMAIN polls :
                /\ polls[p].pc = "draft" /\ polls'[p].pc = "seen"
                /\ polls[p].classification \in {"draft_for_review", "escalate"}
                /\ Len(drafts') = Len(drafts) + 1
                /\ SubSeq(drafts', 1, Len(drafts)) = drafts
                /\ drafts'[Len(drafts')].text_content = None
                      <=> polls[p].classification = "escalate"
       /\ \A u \in DOMAIN inbox :
            inbox'[u].seen # inbox[u].seen =>
                \E p \in DOMAIN polls :
                    /\ polls[p].pc = "seen" /\ polls[p].uid = u
                    /\ polls'[p].pc = "record"
                    /\ polls[p].classification \in
                          {"auto_reply", "draft_for_review", "escalate", "ignore"}
       /\ agent_actions' # agent_actions =>
            \E p \in DOMAIN polls :
                /\ polls[p].pc = "record"
                /\ \E row \in agent_actions' :
                      /\ agent_actions' = agent_actions \cup {row}
                      /\ row.inbound_message_id = Key(polls[p].uid)
                      /\ row.inbound_message_id \notin Journaled
                      /\ row.action = polls[p].classification
                      /\ row.classification = polls[p].classification]_vars

\* an escalated message: journaled as such, its draft without body, seen
C21_Witness ==
    /\ \E row \in agent_actions : row.action = "escalate"
    /\ \E d \in DOMAIN drafts :
          drafts[d].text_content = None /\ drafts[d].created_by = "inbox-agent"
    /\ \E u \in DOMAIN inbox : inbox[u].seen

\* ---- C22: the events of a discover_stream are a prefix of the phase law of
\*      its address, and are the whole law once the generator has ended: for
\*      an address without '@' the single event complete, carrying an error;
\*      otherwise dns, autoconfig, then aliases exactly when the alias
\*      expansion of the MX bases holds a domain other than the address's own,
\*      then probing, then one complete, and nothing after it
EventNames ==
    [i \in DOMAIN disc.events |->
        IF disc.events[i].event = "phase" THEN disc.events[i].name
        ELSE disc.events[i].event]

PhaseLaw ==
    IF Len(disc.email) < 2 THEN <<"complete">>
    ELSE <<"dns", "autoconfig">>
         \o (IF alias_expansion(disc.mx_bases, disc.domain) # {}
             THEN <<"aliases">> ELSE <<>>)
         \o <<"probing", "complete">>

\* the generator has returned or has raised
Ended == disc.pc \in {"done", "raised"}

C22_PhaseLaw ==
    disc.variant = "stream" =>
        /\ Len(EventNames) <= Len(PhaseLaw)
        /\ EventNames = SubSeq(PhaseLaw, 1, Len(EventNames))
        /\ Ended => EventNames = PhaseLaw
        /\ (Ended /\ Len(disc.email) < 2) => disc.events[1].data.error # ""
        /\ (Ended /\ Len(disc.email) >= 2)
              => disc.events[Len(disc.events)].data.error = ""

\* ---- C26: a discovery of an address with an '@' never ends on the exception
\*      of a candidate source: it reaches its probes with the common
\*      candidates of the domain on both lists, and ends with its result, the
\*      batch variant with the dictionary it returns, the streaming variant
\*      with a last event complete
C26_SourceFailuresTolerated ==
    (disc.variant # "none" /\ Len(disc.email) >= 2) =>
        /\ disc.pc # "raised"
        /\ disc.pc \in {"probing", "done"} =>
              /\ Range(common_candidates(disc.domain).smtp)
                    \subseteq Range(disc.smtp_candidates)
              /\ Range(common_candidates(disc.domain).imap)
                    \subseteq Range(disc.imap_candidates)
        /\ (disc.pc = "done" /\ disc.variant = "batch")
              => disc.response.domain = disc.domain
        /\ (disc.pc = "done" /\ disc.variant = "stream")
              => /\ disc.events[Len(disc.events)].event = "complete"
                 /\ disc.events[Len(disc.events)].data.domain = disc.domain

\* ---- C23: the account has at most rate_limit_per_hour rows created in the
\*      trailing hour (the clock of the model stays within one hour of the
\*      start, so every row of the table is one of them), and no request
\*      handler holds a row that was admitted beyond the cap
RowsOf(account_id) == {i \in DOMAIN msgs : msgs[i].account_id = account_id}

C23_RateLimit ==
    /\ MaxTime < 3600
    /\ Cardinality(RowsOf(Account)) <= rate_limit_per_hour
    /\ \A i \in DOMAIN reqs : i <= rate_limit_per_hour

\* ---- C24: while a row that POST /send enqueued and notified is still waiting
\*      for its first attempt, a poll loop that waits has its event set, so
\*      that it wakes without the timeout; and the read of the queue that the
\*      loop then makes returns the row
Notified ==
    {i \in DOMAIN reqs : /\ reqs[i].kind = "async" /\ reqs[i].pc = "done"
                         /\ msgs[i].status = "queued"
                         /\ msgs[i].next_retry_at = NoTime}

C25_ShutdownDrain ==
    /\ [](spc = "stopped" => /\ wpc \in {"cancelled", "exited"}
                             /\ tasks = NoTasks
                             /\ in_flight = {})
    /\ [][/\ (spc = "idle" /\ spc' # "idle") => (stopping' /\ work_available')
          /\ (wpc # "cancelled" /\ wpc' = "cancelled")
                => (in_flight = {} \/ drained >= DRAIN_BUDGET)]_vars

\* stop() has returned after the budget ran out on a send that was under way
C25_Witness ==
    /\ spc = "stopped" /\ wpc = "cancelled"
    /\ \E i \in DOMAIN msgs : msgs[i].status = "sending"

\* ---- C27: while the process stays up, every row that is 'queued' is later
\*      'sent' or 'failed', and no row is retried more than MAX_RETRIES times
C27_QueueDrains ==
    /\ \A i \in 1..MaxMsgs :
          (i \in DOMAIN msgs /\ msgs[i].status = "queued")
             ~> (i \in DOMAIN msgs /\ msgs[i].status \in {"sent", "failed"})
    /\ [](\A i \in DOMAIN msgs : msgs[i].retry_count <= MAX_RETRIES)

\* a row has failed on its last retry
C27_Witness ==
    \E i \in DOMAIN msgs : /\ msgs[i].status = "failed"
                           /\ msgs[i].retry_count = MAX_RETRIES

\* ---- C29: a coroutine of acquire that saw a failure closes the connection it
\*      holds before it goes on or leaves: the candidate whose probe failed or
\*      that is to be evicted, and the client that has connected when its
\*      login fails; and whoever leaves acquire gives its slot back
C29_FailureCloses ==
    [][\A me \in BagToSet(callers) :
          /\ (me.pc = "evict" /\ CopiesIn(me, callers') < CopiesIn(me, callers))
                => ~conns'[me.conn].open
          /\ (me.pc = "login" /\ CopiesIn(me, callers') < CopiesIn(me, callers))
                => \E next \in BagToSet(callers') :
                      /\ next.pc \in {"held", "closing"}
                      /\ CopiesIn(next, callers') > CopiesIn(next, callers)
          /\ Leases' < Leases => sem' = sem + 1]_vars

\* ---- C30: when the poll loop and a poll of poll_once overlap, a message that
\*      has a Message-ID is classified and acted on by one poll at most: no two
\*      polls are past the classification of the same message, and no two
\*      drafts of the agent answer the same message
C30_ActedOnce ==
    /\ \A p, q \in DOMAIN polls :
          (/\ p # q
           /\ polls[p].pc \in {"reply", "draft", "seen", "record"}
           /\ polls[q].pc \in {"reply", "draft", "seen", "record"}
           /\ inbox[polls[p].uid].message_id # 0)
              => polls[p].uid # polls[q].uid
    /\ \A d1, d2 \in DOMAIN drafts :
          (/\ drafts[d1].created_by = "inbox-agent"
           /\ drafts[d2].created_by = "inbox-agent"
           /\ drafts[d1].in_reply_to # 0
           /\ drafts[d1].in_reply_to = drafts[d2].in_reply_to)
              => d1 = d2

\* the connections leased to a coroutine that is in the body of
\* `async with pool.acquire(account)`
Leased == {r.conn : r \in {h \in BagToSet(callers) : h.pc = "held"}}

\* ---- C28: with the cleanup task running beside acquire, release and
\*      invalidate_account, a leased connection is in no idle list and is
\*      leased to one coroutine only, and the cleanup task closes no
\*      connection that is leased
C28_SweeperSparesLeases ==
    /\ [](\A r \in BagToSet(callers) :
            r.pc = "held" =>
               /\ idle # 0 => r.conn \notin Elements(lists[idle])
               /\ CopiesIn(r, callers) = 1)
    /\ [][(sweep.pc = "quit" /\ sweep' # sweep) => sweep.conn \notin Leased]_vars

\* a task that had claimed its row returns, the poll task not being cancelled
\* and the process not restarted
Finished(id) ==
    /\ id \in DOMAIN tasks /\ tasks[id].pc \in Started
    /\ id \notin DOMAIN tasks'
    /\ wpc' = wpc

Due(i) == msgs[i].next_retry_at = NoTime \/ msgs[i].next_retry_at <= now

\* ---- C32: the worker attempts eligible rows only: the rows a poll reads
\*      are 'queued' and due when they are read, a task is made for a row of
\*      that read only, and the row of a task or of a read stays due, so that
\*      no row rescheduled for retry is submitted before its next_retry time
C32_OnlyEligibleAttempted ==
    /\ [](/\ \A k \in DOMAIN queued : Due(queued[k].id)
          /\ \A id \in DOMAIN tasks : Due(id))
    /\ [][/\ (wpc = "top" /\ wpc' = "fetched") =>
                \A k \in DOMAIN queued' : queued'[k].id \in eligible(msgs, now)
          /\ \A id \in (DOMAIN tasks') \ (DOMAIN tasks) :
                \E k \in DOMAIN queued : queued[k].id = id
          /\ \A id \in DOMAIN tasks :
                (tasks[id].pc = "send" /\ id \in DOMAIN tasks'
                   /\ tasks'[id].pc # "send") => Due(id)]_vars

C32_Witness ==
    \E id \in DOMAIN tasks :
        /\ tasks[id].pc = "send"
        /\ msgs[id].retry_count >= 1
        /\ msgs[id].next_retry_at # NoTime
        /\ msgs[id].next_retry_at <= now

\* what the claim asks of the result of a probe of the candidates
BestOf(candidates, reach, result) ==
    LET up == {i \in DOMAIN candidates : Connects(candidates[i], reach)}
    IN  IF up = {} THEN result = <<>>
        ELSE /\ result # <<>>
             /\ \E i \in up :
                   /\ candidates[i][1] = result[1]
                   /\ candidates[i][2] = result[2]
                   /\ candidates[i][4] = result[3]
                   /\ \A j \in up : candidates[i][3] <= candidates[j][3]

\* ---- C33: for the candidate lists a discovery has gathered and every
\*      reachability of the servers, _probe_best returns host, port and source
\*      of a candidate of the lowest priority among those that connect, and
\*      nothing exactly when none connects
C33_ProbeSelectsBest ==
    disc.pc = "probing" =>
       \A reach \in Reachability(ProbedDomains) :
          /\ BestOf(disc.smtp_candidates, reach,
                    probe_best(disc.smtp_candidates, reach))
          /\ BestOf(disc.imap_candidates, reach,
                    probe_best(disc.imap_candidates, reach))

\* the candidates hold a host and port twice, from the autoconfig document
\* and as a common name, with an MX candidate before them, and the probe
\* has chosen the entry of the document
C33_Witness ==
    /\ disc.variant = "stream" /\ disc.pc = "done"
    /\ \E i, j, k \in DOMAIN disc.smtp_candidates :
          /\ i < j /\ j < k
          /\ disc.smtp_candidates[i][4] = "mx"
          /\ disc.smtp_candidates[j][4] = "autoconfig"
          /\ disc.smtp_candidates[k][4] = "common"
          /\ disc.smtp_candidates[j][1] = disc.smtp_candidates[k][1]
          /\ disc.smtp_candidates[j][2] = disc.smtp_candidates[k][2]
          /\ disc.events[Len(disc.events)].data.smtp =
                <<disc.smtp_candidates[j][1], disc.smtp_candidates[j][2], "autoconfig">>

\* ---- C34: a failure on one unread message does not end the poll: a poll
\*      goes back to idle only when no message of its batch is left
C34_FailureContained ==
    [][\A p \in DOMAIN polls :
          (polls[p].pc # "idle" /\ polls'[p].pc = "idle")
             => polls[p].unread = <<>>]_vars

\* ---- C35: a row of the synchronous send path or of a draft send is
\*      submitted at most once: when the submission of the handler that
\*      made the row is accepted, no task of the worker holds an accepted
\*      submission of the same row
C35_SubmittedOnce ==
    [][\A id \in DOMAIN reqs :
          ( /\ reqs[id].kind \in {"sync", "draft"}
            /\ reqs[id].pc = "created" /\ reqs'[id].pc = "done"
            /\ msgs[id].status # "sent" /\ msgs'[id].status = "sent" )
             => ~( /\ id \in DOMAIN tasks
                   /\ tasks[id].pc = "result"
                   /\ tasks[id].result.kind = "ok" )]_vars

\* ---- C36: 'sent' and 'failed' are absorbing: no step changes the status
\*      of a row that is 'sent' or 'failed'
C36_TerminalAbsorbing ==
    [][\A id \in DOMAIN msgs :
          msgs[id].status \in {"sent", "failed"}
             => msgs'[id].status = msgs[id].status]_vars

\* the send and approve requests on draft d whose submission was accepted
Transmitted(d) ==
    {i \in DOMAIN dreqs : /\ dreqs[i].kind \in Sending
                          /\ dreqs[i].draft = d
                          /\ dreqs[i].msg # 0
                          /\ msgs[dreqs[i].msg].status = "sent"}

\* ---- C37: a draft is transmitted at most once: of the send and approve
\*      requests on one draft at most one has had a submission accepted
C37_DraftSentOnce ==
    \A d \in DOMAIN drafts : Cardinality(Transmitted(d)) <= 1

\* the coroutines inside _create_connection
Opening == {r \in BagToSet(callers) : r.pc \in {"connect", "login"}}

\* ---- C38: the distinct open connections of the account that are idle or
\*      leased, with those an acquire is opening, are never more than
\*      max_connections_per_account
C38_PoolBounded ==
    Cardinality({k \in Idle \cup Leased : conns[k].open})
       + BagCardinality([r \in Opening |-> CopiesIn(r, callers)])
          <= max_connections_per_account

\* ---- C39: a message is journaled only after mark-seen was issued for it
\*      in the same pass: the work on a message comes to _record_action
\*      from _mark_seen_safe alone, and a row is added to agent_actions
\*      only from there
C39_SeenBeforeJournal ==
    [][\A p \in DOMAIN polls :
          /\ (polls[p].pc # "record" /\ polls'[p].pc = "record")
                => polls[p].pc = "seen"
          /\ (agent_actions' # agent_actions /\ polls'[p] # polls[p])
                => polls[p].pc = "record"]_vars

\* ---- C40: discover and discover_stream are equivalent: for the same
\*      address, the same answers of every source and the same reachability,
\*      the payload of the complete event of the stream is the dictionary
\*      the batch variant returns
C40_VariantsAgree ==
    disc.pc \in {"dns", "gather"} =>
       \A srv \in discover_srv(disc.domain),
          autoconfig \in discover_autoconfig(disc.domain),
          mx \in discover_mx(disc.domain) :
          \A aliases \in Orders(alias_expansion(Range(mx.mx_bases), disc.domain)) :
             \A alias_results \in AliasResults(aliases),
                reach \in Reachability(ProbedDomains) :
                answer("stream", disc.domain, srv, autoconfig, mx, aliases,
                       alias_results, reach)
                   = answer("batch", disc.domain, srv, autoconfig, mx, aliases,
                            alias_results, reach)

====
